---- MODULE Spec2Model ----
(***************************************************************************)
(* Appointment booking of appointment_booking_system_app: the request      *)
(* handlers of AppointmentViewSet with AppointmentSerializer and of         *)
(* TimeSlotViewSet with TimeSlotSerializer, over the Appointment, TimeSlot  *)
(* and AppointmentStatusLog tables of models.py.                            *)
(*                                                                          *)
(* Dates are day numbers (day 0 = Thursday 1970-01-01), times are minutes   *)
(* since midnight, money is an integer amount.  A request body is a         *)
(* function from the names of the fields it supplies to their values, so a  *)
(* partial body is a function with a smaller domain.  A response is the     *)
(* HTTP status code with the set of message texts it carries.               *)
(*                                                                          *)
(* The serializer classes inherit rest_framework's ModelSerializer; the     *)
(* order in which it runs the pieces the source declares (field validators, *)
(* the validators derived from Meta.unique_together, then validate(), and   *)
(* create()/update() only from save()) is the framework's and is modelled   *)
(* in run_validation and in the view operators.                             *)
(***************************************************************************)
EXTENDS Integers, FiniteSets, Sequences, TLC

VARIABLES clock, timeslots, appointments, client, statuslogs,
          reminders, outbox, reports, worker,
          tokens, cachetokens,
          users, doctorprofiles,
          sequence

\* the AppointmentReminder table, the mails send_mail has sent, the
\* MonthlyReport table and the runs of the periodic jobs
jobvars == <<reminders, outbox, reports, worker>>

\* the Token and CacheToken tables
authvars == <<tokens, cachetokens>>

\* the User and DoctorProfile tables
accountvars == <<users, doctorprofiles>>

\* sequence: the last value the id sequence of each table has given; a
\* value given is never given again, whatever became of the row
vars == <<clock, timeslots, appointments, client, statuslogs,
          jobvars, authvars, accountvars, sequence>>

---------------------------------------------------------------------------
(* Bounds of the model *)

\* dates of requests run from the day before Today to Today + MaxAhead
MaxAhead == 1
\* number of Appointment rows the store holds when the handlers start (one
\* more where the requests of two clients interleave)
MaxSeed == 1
\* largest primary key of a TimeSlot row
MaxSlotPk == 2
\* number of runs of the periodic jobs that one worker starts
MaxRuns == 2
\* largest primary key of a User row and of a DoctorProfile row
MaxUserPk == 3
MaxProfilePk == 2

---------------------------------------------------------------------------
(* Domains *)

Today == 4

Dates == (Today - 1)..(Today + MaxAhead)

\* 08:00, 09:00, 10:00, 13:00, 17:00, 18:00
TimeValues == {480, 540, 600, 780, 1020, 1080}

Doctors == {1, 2}

Patients == {1, 2}

Fees == {50, 80}

None == [none |-> TRUE]

STATUS_CHOICES == {"pending", "confirmed", "cancelled", "completed"}

DayNames == <<"Monday", "Tuesday", "Wednesday", "Thursday", "Friday", "Saturday", "Sunday">>

\* TimeSlot.WEEKDAY_CHOICES: the label the model gives each stored integer
WEEKDAY_CHOICES == [i \in 0..6 |->
    CASE i = 0 -> "Friday"
      [] i = 1 -> "Saturday"
      [] i = 2 -> "Sunday"
      [] i = 3 -> "Monday"
      [] i = 4 -> "Wednesday"
      [] i = 5 -> "Thursday"
      [] i = 6 -> "Sunday"]

\* datetime.date.weekday(): Monday is 0 and Sunday is 6; day 0 is a Thursday
weekday(d) == (d + 3) % 7

\* the name of the day of the week a date falls on
DayNameOf(d) == DayNames[weekday(d) + 1]

\* attributes of a DoctorProfile instance: its fields and the reverse
\* accessors of the foreign keys that point at it (none declares related_name)
DoctorProfileAttrs ==
    {"id", "user", "specialization", "bio", "location", "is_available",
     "timeslot_set", "appointment_set", "monthlyreport_set"}

\* fields of TimeSlot that a queryset filter can name
TimeSlotFields == {"id", "doctor", "weekday", "start_time", "end_time"}

---------------------------------------------------------------------------
(* Messages *)

MsgPastDate == "Appointment date cannot be in the past."
MsgBusinessHours == "Appointments must be between 9AM and 5PM"
MsgPastDateTime == "Appointment cannot be scheduled in the past."
MsgUnavailable == "Doctor is not available at this time."
MsgBooked == "This time slot is already booked."
MsgTerminal == "Cannot modify completed or cancelled appointments."
MsgDoctorChange == "Cannot change doctor for an existing appointment."
MsgRequired == "This field is required."
MsgUniqueSet == "The fields doctor, appointment_date, appointment_time must make a unique set."
MsgNoTimeSlots == "'DoctorProfile' object has no attribute 'time_slots'"
MsgNoIsAvailable == "Cannot resolve keyword 'is_available' into field."
MsgIntegrity == "duplicate key value violates unique constraint"
MsgDoesNotExist == "Appointment matching query does not exist."
MsgSuccess == "Request successful."
MsgDeleted == "Data deleted successfully."
MsgNoDataFound == "No data found!"

---------------------------------------------------------------------------
(* Outcomes of a validation step: it passes, it rejects with messages      *)
(* (a serializers.ValidationError), or another exception escapes it.       *)

Pass == [kind |-> "valid", exc |-> "", errors |-> {}]

Reject(msgs) == [kind |-> "invalid", exc |-> "", errors |-> msgs]

Raise(exc, msg) == [kind |-> "raise", exc |-> exc, errors |-> {msg}]

Response(code, msgs) == [status |-> code, message |-> msgs]

---------------------------------------------------------------------------
(* utils/exception_handler.py *)

\* EXCEPTION_STATUS_MAPPING.get(type(exception), 500): the lookup is by the
\* exact class, so a subclass of a listed class gets the default
EXCEPTION_STATUS_MAPPING(exc) ==
    CASE exc = "ValueError" -> 400
      [] exc = "ObjectDoesNotExist" -> 400
      [] exc = "django.ValidationError" -> 422
      [] exc = "APIException" -> 400
      [] exc = "Exception" -> 500
      [] OTHER -> 500

handle_exception(out) == Response(EXCEPTION_STATUS_MAPPING(out.exc), out.errors)

---------------------------------------------------------------------------
(* AppointmentSerializer *)

UniqueFields == {"doctor", "appointment_date", "appointment_time"}

RequiredFields == {"patient", "doctor", "appointment_date", "appointment_time"}

\* Meta.read_only_fields: a body's values for these never reach validated data
ReadOnlyFields == {"status", "consultation_fee", "created_at", "updated_at"}

Writable(data) == [f \in (DOMAIN data) \ ReadOnlyFields |-> data[f]]

\* a comparison that is off by one day
validate_appointment_date_lenient(value, now) ==
    IF value < now.date - 1 THEN {MsgPastDate} ELSE {}

validate_appointment_date(value, now) ==
    IF value < now.date THEN {MsgPastDate} ELSE {}

BusinessOpen == 540

BusinessClose == 1020

\* a closing bound that is exclusive
validate_appointment_time_exclusive(value) ==
    IF value < BusinessOpen \/ value >= BusinessClose THEN {MsgBusinessHours} ELSE {}

validate_appointment_time(value) ==
    IF value < BusinessOpen \/ value > BusinessClose THEN {MsgBusinessHours} ELSE {}

\* the field pass of is_valid(): every supplied field is validated and the
\* errors of all fields are collected; a required field may be absent only
\* from a partial body
to_internal_value(data, partial, now) ==
    LET attrs == Writable(data)
        missing == IF partial \/ RequiredFields \subseteq DOMAIN attrs
                   THEN {} ELSE {MsgRequired}
        dateErr == IF "appointment_date" \in DOMAIN attrs
                   THEN validate_appointment_date(attrs["appointment_date"], now)
                   ELSE {}
        timeErr == IF "appointment_time" \in DOMAIN attrs
                   THEN validate_appointment_time(attrs["appointment_time"])
                   ELSE {}
    IN  missing \cup dateErr \cup timeErr

\* a table without the constraint
unique_together_absent(rows) == TRUE

\* Appointment.Meta.unique_together, as the rows of the table obey it
unique_together(rows) ==
    \A a, b \in rows :
        (a.doctor = b.doctor /\ a.appointment_date = b.appointment_date
         /\ a.appointment_time = b.appointment_time) => a.pk = b.pk

\* The validator the serializer derives from Meta.unique_together: a field
\* the body leaves out takes the instance's value, the instance itself is
\* excluded, and the status of the rows plays no part
UniqueTogetherValidator(attrs, instance, rows) ==
    LET val(f) == IF f \in DOMAIN attrs THEN attrs[f] ELSE instance[f]
    IN  IF \E a \in rows :
              /\ a.doctor = val("doctor")
              /\ a.appointment_date = val("appointment_date")
              /\ a.appointment_time = val("appointment_time")
              /\ (instance = None \/ a.pk # instance.pk)
        THEN {MsgUniqueSet} ELSE {}

\* appointment_datetime <= timezone.now()
NotAfter(d, t, now) == d < now.date \/ (d = now.date /\ t <= now.time)

\* doctor.time_slots.filter(weekday=..., start_time__lte=..., end_time__gt=...,
\* is_available=True).exists()
time_slots_filter(doctor, day, t, slots) ==
    \E s \in slots :
        /\ s.doctor = doctor
        /\ s.weekday = day
        /\ s.start_time <= t
        /\ s.end_time > t

\* Appointment.objects.filter(doctor, date, time, status__in=[pending,
\* confirmed]).exclude(pk=instance.pk).exists()
conflicting(attrs, instance, rows) ==
    \E a \in rows :
        /\ a.doctor = attrs["doctor"]
        /\ a.appointment_date = attrs["appointment_date"]
        /\ a.appointment_time = attrs["appointment_time"]
        /\ a.status \in {"pending", "confirmed"}
        /\ (instance = None \/ a.pk # instance.pk)

\* AppointmentSerializer.validate(attrs): attrs holds the supplied fields only
validate(attrs, instance, rows, slots, now) ==
    IF "appointment_date" \notin DOMAIN attrs
    THEN Raise("KeyError", "'appointment_date'")
    ELSE IF "appointment_time" \notin DOMAIN attrs
    THEN Raise("KeyError", "'appointment_time'")
    ELSE IF NotAfter(attrs["appointment_date"], attrs["appointment_time"], now)
    THEN Reject({MsgPastDateTime})
    ELSE IF "doctor" \notin DOMAIN attrs
    THEN Raise("KeyError", "'doctor'")
    ELSE IF "time_slots" \notin DoctorProfileAttrs
    THEN Raise("AttributeError", MsgNoTimeSlots)
    ELSE IF "is_available" \notin TimeSlotFields
    THEN Raise("FieldError", MsgNoIsAvailable)
    ELSE IF ~time_slots_filter(attrs["doctor"], weekday(attrs["appointment_date"]),
                               attrs["appointment_time"], slots)
    THEN Reject({MsgUnavailable})
    ELSE IF conflicting(attrs, instance, rows)
    THEN Reject({MsgBooked})
    ELSE Pass

\* serializer.is_valid(): the field pass, then the unique-together validator,
\* then validate(); the first stage that fails decides the outcome.
\* timezone.now() is read twice, in validate_appointment_date (now) and in
\* validate() (later)
run_validation(data, instance, partial, rows, slots, now, later) ==
    LET attrs == Writable(data)
        fieldErrors == to_internal_value(data, partial, now)
    IN  IF fieldErrors # {} THEN Reject(fieldErrors)
        ELSE IF UniqueTogetherValidator(attrs, instance, rows) # {}
        THEN Reject(UniqueTogetherValidator(attrs, instance, rows))
        ELSE validate(attrs, instance, rows, slots, later)

\* Model.save() of a row: the table's unique constraint decides
save_ok(row, rows) == unique_together({a \in rows : a.pk # row.pk} \cup {row})

\* AppointmentSerializer.create(validated_data): the defaults, then the insert
create_row(attrs, pk, fees) ==
    [pk |-> pk,
     patient |-> attrs["patient"],
     doctor |-> attrs["doctor"],
     appointment_date |-> attrs["appointment_date"],
     appointment_time |-> attrs["appointment_time"],
     notes |-> IF "notes" \in DOMAIN attrs THEN attrs["notes"] ELSE "",
     status |-> IF "status" \in DOMAIN attrs THEN attrs["status"] ELSE "pending",
     consultation_fee |-> IF "consultation_fee" \in DOMAIN attrs
                          THEN attrs["consultation_fee"] ELSE fees[attrs["doctor"]]]

\* AppointmentSerializer.update(instance, validated_data), up to the save
update_check(instance, attrs) ==
    IF instance.status \in {"completed", "cancelled"}
    THEN Raise("drf.ValidationError", MsgTerminal)
    ELSE IF "doctor" \in DOMAIN attrs /\ attrs["doctor"] # instance.doctor
    THEN Raise("drf.ValidationError", MsgDoctorChange)
    ELSE Pass

update_row(instance, attrs) ==
    [f \in DOMAIN instance |-> IF f \in DOMAIN attrs THEN attrs[f] ELSE instance[f]]

---------------------------------------------------------------------------
(* AppointmentViewSet: each operator gives the response and the table      *)
(* after the handler                                                        *)

Result(resp, rows) == [resp |-> resp, rows |-> rows]

\* the primary key the table gives the next row: nextval of its id sequence
new_pk(table) == sequence[table] + 1

\* the sequences after the INSERT of a row into the table, also when the
\* INSERT ends in an IntegrityError
nextval(table) == [sequence EXCEPT ![table] = @ + 1]

\* the largest primary key of the rows, 0 for none
MaxPk(rows) ==
    IF rows = {} THEN 0
    ELSE CHOOSE m \in {a.pk : a \in rows} : \A a \in rows : a.pk <= m

get(pk, rows) ==
    IF \E a \in rows : a.pk = pk THEN CHOOSE a \in rows : a.pk = pk ELSE None

\* serializer.save() of AppointmentViewSet.create, after is_valid() passed
create_save(data, rows, fees) ==
    LET row == create_row(Writable(data), new_pk("appointment"), fees)
    IN  IF save_ok(row, rows)
        THEN Result(Response(201, {MsgSuccess}), rows \cup {row})
        ELSE Result(handle_exception(Raise("IntegrityError", MsgIntegrity)), rows)

\* the response of AppointmentViewSet.create for the outcome of is_valid()
create_finish(out, data, rows, fees) ==
    CASE out.kind = "valid" -> create_save(data, rows, fees)
      [] out.kind = "invalid" -> Result(Response(422, out.errors), rows)
      [] out.kind = "raise" -> Result(handle_exception(out), rows)

create(data, rows, slots, now, later, fees) ==
    create_finish(run_validation(data, None, FALSE, rows, slots, now, later), data, rows,
                  fees)

\* serializer.save() of AppointmentViewSet.partial_update: update() with the
\* instance the handler fetched, then the row is written back
update_save(instance, data, rows) ==
    LET chk == update_check(instance, Writable(data))
        row == update_row(instance, Writable(data))
    IN  IF chk.kind = "raise" THEN Result(handle_exception(chk), rows)
        ELSE IF ~save_ok(row, rows)
        THEN Result(handle_exception(Raise("IntegrityError", MsgIntegrity)), rows)
        ELSE Result(Response(200, {MsgSuccess}),
                    {a \in rows : a.pk # row.pk} \cup {row})

update_finish(out, instance, data, rows) ==
    CASE out.kind = "valid" -> update_save(instance, data, rows)
      [] out.kind = "invalid" -> Result(Response(400, out.errors), rows)
      [] out.kind = "raise" -> Result(handle_exception(out), rows)

not_found(rows) ==
    Result(handle_exception(Raise("Appointment.DoesNotExist", MsgDoesNotExist)), rows)

\* AppointmentViewSet.retrieve: objects.get raises before the test of its result
retrieve(pk, rows) ==
    IF get(pk, rows) = None THEN not_found(rows)
    ELSE Result(Response(200, {MsgSuccess}), rows)

\* a handler that writes the status of the body to the row
partial_update_status_writable(pk, data, rows, slots, now, later) ==
    LET instance == get(pk, rows)
    IN  IF instance = None THEN not_found(rows)
        ELSE IF "status" \in DOMAIN data
        THEN Result(Response(200, {MsgSuccess}),
                    {r \in rows : r.pk # pk}
                        \cup {[instance EXCEPT !.status = data["status"]]})
        ELSE update_finish(run_validation(data, instance, TRUE, rows, slots, now, later),
                           instance, data, rows)

partial_update(pk, data, rows, slots, now, later) ==
    LET instance == get(pk, rows)
    IN  IF instance = None THEN not_found(rows)
        ELSE update_finish(run_validation(data, instance, TRUE, rows, slots, now, later),
                           instance, data, rows)

destroy(pk, rows) ==
    IF get(pk, rows) = None THEN not_found(rows)
    ELSE Result(Response(204, {MsgDeleted}), {a \in rows : a.pk # pk})

\* AppointmentStatusLog.appointment is a ForeignKey with on_delete=CASCADE:
\* the entries of a deleted appointment are deleted with it
on_delete_CASCADE(rows, logs) == {l \in logs : \E a \in rows : a.pk = l.appointment}

---------------------------------------------------------------------------
(* TimeSlotSerializer *)

MsgInvalidRange == "Start time must be before end time"
MsgOverlap == "This time slot overlaps with an existing slot"
MsgSlotUniqueSet == "The fields doctor, weekday, start_time, end_time must make a unique set."
MsgInvalidChoice == "is not a valid choice."
MsgSlotDoesNotExist == "TimeSlot matching query does not exist."

\* Meta.extra_kwargs: the four fields are required
SlotFields == {"doctor", "weekday", "start_time", "end_time"}

\* the field pass of is_valid(): a required field may be absent only from a
\* partial body, and weekday is one of the keys of WEEKDAY_CHOICES
TimeSlot_to_internal_value(data, partial) ==
    LET missing == IF partial \/ SlotFields \subseteq DOMAIN data
                   THEN {} ELSE {MsgRequired}
        choice == IF "weekday" \in DOMAIN data /\ data["weekday"] \notin DOMAIN WEEKDAY_CHOICES
                  THEN {MsgInvalidChoice} ELSE {}
    IN  missing \cup choice

\* TimeSlot.Meta.unique_together, as the rows of the table obey it
TimeSlot_unique_together(slots) ==
    \A a, b \in slots :
        (\A f \in SlotFields : a[f] = b[f]) => a.pk = b.pk

\* the validator the serializer derives from Meta.unique_together
TimeSlot_UniqueTogetherValidator(attrs, instance, slots) ==
    LET val(f) == IF f \in DOMAIN attrs THEN attrs[f] ELSE instance[f]
    IN  IF \E s \in slots :
              /\ \A f \in SlotFields : s[f] = val(f)
              /\ (instance = None \/ s.pk # instance.pk)
        THEN {MsgSlotUniqueSet} ELSE {}

\* a comparison that lets an empty range through
start_not_before_end_strict(start, end) == start > end

\* attrs["start_time"] >= attrs["end_time"]
start_not_before_end(start, end) == start >= end

\* TimeSlot.objects.filter(doctor, weekday, start_time__lt=end_time,
\* end_time__gt=start_time), without the instance when updating
overlapping_slots(attrs, instance, slots) ==
    {s \in slots :
        /\ s.doctor = attrs["doctor"]
        /\ s.weekday = attrs["weekday"]
        /\ s.start_time < attrs["end_time"]
        /\ s.end_time > attrs["start_time"]
        /\ (instance = None \/ s.pk # instance.pk)}

\* TimeSlotSerializer.validate(attrs): attrs holds the supplied fields only
TimeSlot_validate(attrs, instance, slots) ==
    IF "start_time" \notin DOMAIN attrs
    THEN Raise("KeyError", "'start_time'")
    ELSE IF "end_time" \notin DOMAIN attrs
    THEN Raise("KeyError", "'end_time'")
    ELSE IF start_not_before_end(attrs["start_time"], attrs["end_time"])
    THEN Reject({MsgInvalidRange})
    ELSE IF "doctor" \notin DOMAIN attrs
    THEN Raise("KeyError", "'doctor'")
    ELSE IF "weekday" \notin DOMAIN attrs
    THEN Raise("KeyError", "'weekday'")
    ELSE IF overlapping_slots(attrs, instance, slots) # {}
    THEN Reject({MsgOverlap})
    ELSE Pass

\* the first part of serializer.is_valid(): the field pass, then the
\* unique-together validator with its query of the table
TimeSlot_run_validators(data, instance, partial, slots) ==
    LET fieldErrors == TimeSlot_to_internal_value(data, partial)
    IN  IF fieldErrors # {} THEN Reject(fieldErrors)
        ELSE IF TimeSlot_UniqueTogetherValidator(data, instance, slots) # {}
        THEN Reject(TimeSlot_UniqueTogetherValidator(data, instance, slots))
        ELSE Pass

\* serializer.is_valid(): the field pass and the unique-together validator,
\* then validate() with the overlap query
TimeSlot_run_validation(data, instance, partial, slots) ==
    IF TimeSlot_run_validators(data, instance, partial, slots) # Pass
    THEN TimeSlot_run_validators(data, instance, partial, slots)
    ELSE TimeSlot_validate(data, instance, slots)

\* Model.save() of a slot: the table's unique constraint decides
TimeSlot_save_ok(row, slots) ==
    TimeSlot_unique_together({s \in slots : s.pk # row.pk} \cup {row})

---------------------------------------------------------------------------
(* TimeSlotViewSet: each operator gives the response and the table after   *)
(* the handler                                                              *)

\* serializer.save() of TimeSlotViewSet.create, after is_valid() passed
TimeSlot_create_save(data, slots) ==
    LET row == [pk |-> new_pk("timeslot"), doctor |-> data["doctor"],
                weekday |-> data["weekday"], start_time |-> data["start_time"],
                end_time |-> data["end_time"]]
    IN  IF TimeSlot_save_ok(row, slots)
        THEN Result(Response(201, {MsgSuccess}), slots \cup {row})
        ELSE Result(handle_exception(Raise("IntegrityError", MsgIntegrity)), slots)

\* a handler that inserts the row before it looks at the outcome of is_valid()
TimeSlot_create_finish_writes_first(out, data, slots) ==
    LET row == [pk |-> new_pk("timeslot"), doctor |-> data["doctor"],
                weekday |-> data["weekday"], start_time |-> data["start_time"],
                end_time |-> data["end_time"]]
    IN  CASE out.kind = "valid" -> TimeSlot_create_save(data, slots)
          [] out.kind = "invalid" -> Result(Response(422, out.errors), slots \cup {row})
          [] out.kind = "raise" -> Result(handle_exception(out), slots)

TimeSlot_create_finish(out, data, slots) ==
    CASE out.kind = "valid" -> TimeSlot_create_save(data, slots)
      [] out.kind = "invalid" -> Result(Response(422, out.errors), slots)
      [] out.kind = "raise" -> Result(handle_exception(out), slots)

TimeSlot_create(data, slots) ==
    TimeSlot_create_finish(TimeSlot_run_validation(data, None, FALSE, slots), data, slots)

\* serializer.save() of TimeSlotViewSet.partial_update: the supplied fields
\* are set on the instance the handler fetched and the row is written back
TimeSlot_update_save(instance, data, slots) ==
    LET row == [f \in DOMAIN instance |->
                   IF f \in DOMAIN data /\ f \in SlotFields THEN data[f] ELSE instance[f]]
    IN  IF ~TimeSlot_save_ok(row, slots)
        THEN Result(handle_exception(Raise("IntegrityError", MsgIntegrity)), slots)
        ELSE Result(Response(200, {MsgSuccess}),
                    {s \in slots : s.pk # row.pk} \cup {row})

TimeSlot_update_finish(out, instance, data, slots) ==
    CASE out.kind = "valid" -> TimeSlot_update_save(instance, data, slots)
      [] out.kind = "invalid" -> Result(Response(400, out.errors), slots)
      [] out.kind = "raise" -> Result(handle_exception(out), slots)

TimeSlot_not_found(slots) ==
    Result(handle_exception(Raise("TimeSlot.DoesNotExist", MsgSlotDoesNotExist)), slots)

TimeSlot_retrieve(pk, slots) ==
    IF get(pk, slots) = None THEN TimeSlot_not_found(slots)
    ELSE Result(Response(200, {MsgSuccess}), slots)

TimeSlot_partial_update(pk, data, slots) ==
    LET instance == get(pk, slots)
    IN  IF instance = None THEN TimeSlot_not_found(slots)
        ELSE TimeSlot_update_finish(TimeSlot_run_validation(data, instance, TRUE, slots),
                                    instance, data, slots)

TimeSlot_destroy(pk, slots) ==
    IF get(pk, slots) = None THEN TimeSlot_not_found(slots)
    ELSE Result(Response(204, {MsgDeleted}), {s \in slots : s.pk # pk})

\* a handler that also deletes the appointments booked inside the slot
TimeSlot_on_delete_cascade(slot, rows) ==
    {a \in rows : ~(/\ a.doctor = slot.doctor
                    /\ weekday(a.appointment_date) = slot.weekday
                    /\ slot.start_time <= a.appointment_time
                    /\ a.appointment_time < slot.end_time)}

\* the appointments after the delete of a slot: no model refers to TimeSlot,
\* so the delete of a slot deletes nothing else
TimeSlot_on_delete(slot, rows) == rows

---------------------------------------------------------------------------
(* services/services.py: the periodic jobs.  A run is a worker's           *)
(* execution of a task of tasks.py; the reminder job reads and writes the   *)
(* tables one statement at a time, with no transaction and no lock.         *)

Workers == {1, 2}

\* a worker: where its run stands, the job, the appointments of the queryset
\* the loop has not handled yet, and the number of runs it has started
IdleWorker == [pc |-> "idle", job |-> "none", queue |-> <<>>, runs |-> 0]

\* AppointmentReminder.objects.create(appointment, reminder_type="24_hours",
\* is_sent=True)
AppointmentReminderRow(pk, appointment) ==
    [pk |-> pk, appointment |-> appointment, reminder_type |-> "24_hours",
     is_sent |-> TRUE]

\* Appointment.objects.filter(appointment_date=tomorrow, status="confirmed")
reminder_due(rows, now) ==
    {a \in rows : a.appointment_date = now.date + 1 /\ a.status = "confirmed"}

\* Appointment.Meta.ordering: the rows of one date by descending time (rows
\* of equal time by primary key), as the sequence of their primary keys
RECURSIVE Ordered(_)
Ordered(S) ==
    IF S = {} THEN <<>>
    ELSE LET a == CHOOSE x \in S : \A y \in S :
                      \/ y.appointment_time < x.appointment_time
                      \/ (y.appointment_time = x.appointment_time /\ y.pk >= x.pk)
         IN  <<a.pk>> \o Ordered(S \ {a})

\* a check that never finds a reminder
already_reminded_never(pk, rems) == FALSE

\* AppointmentReminder.objects.filter(appointment, reminder_type="24_hours",
\* is_sent=True).exists()
already_reminded(pk, rems) ==
    \E r \in rems : r.appointment = pk /\ r.reminder_type = "24_hours" /\ r.is_sent

\* AppointmentReminder.Meta.unique_together, as an insert meets it
AppointmentReminder_save_ok(row, rems) ==
    ~\E r \in rems : r.appointment = row.appointment
                     /\ r.reminder_type = row.reminder_type

\* the rest of the loop after the head of the queue
Advance(w) ==
    LET rest == Tail(w.queue)
    IN  [w EXCEPT !.pc = IF rest = <<>> THEN "idle" ELSE "check", !.queue = rest]

\* datetime.date: year, month and day of a day number.  Day 0 is 1970-01-01;
\* the days of 1969 and 1970 are covered, neither is a leap year
MonthLengths == <<31, 28, 31, 30, 31, 30, 31, 31, 30, 31, 30, 31>>

date_year(d) == IF d < 0 THEN 1969 ELSE 1970

day_of_year(d) == IF d < 0 THEN d + 365 ELSE d

RECURSIVE month_from(_, _)
month_from(n, m) ==
    IF n < MonthLengths[m] THEN m ELSE month_from(n - MonthLengths[m], m + 1)

date_month(d) == month_from(day_of_year(d), 1)

RECURSIVE day_from(_, _)
day_from(n, m) ==
    IF n < MonthLengths[m] THEN n + 1 ELSE day_from(n - MonthLengths[m], m + 1)

date_day(d) == day_from(day_of_year(d), 1)

\* today.replace(day=1) - timedelta(days=1)
last_month(today) == (today - (date_day(today) - 1)) - 1

\* Appointment.objects.filter(appointment_date__year, appointment_date__month,
\* status="completed") of one doctor
completed_of(doctor, year, month, rows) ==
    {a \in rows : /\ a.doctor = doctor
                  /\ date_year(a.appointment_date) = year
                  /\ date_month(a.appointment_date) = month
                  /\ a.status = "completed"}

\* Count("id")
total_appointments(S) == Cardinality(S)

\* a count of the patient column, equal patients counted again
total_patients_not_distinct(S) == Cardinality(S)

\* Count("patient", distinct=True)
total_patients(S) == Cardinality({a.patient : a \in S})

\* Sum("consultation_fee")
RECURSIVE total_earnings(_)
total_earnings(S) ==
    IF S = {} THEN 0
    ELSE LET a == CHOOSE x \in S : TRUE
         IN  a.consultation_fee + total_earnings(S \ {a})

\* the dict of one group of the aggregate of the completed appointments S of
\* a doctor, with the year and month of the run
annotate(doctor, year, month, S) ==
    [doctor |-> doctor, year |-> year, month |-> month,
     total_appointments |-> total_appointments(S),
     total_patients |-> total_patients(S),
     total_earnings |-> total_earnings(S)]

\* the queryset of generate_reports_for_last_month when the loop evaluates
\* it: one group per doctor with a completed appointment in the month before
\* the date of the run
report_groups(rows, now) ==
    LET year == date_year(last_month(now.date))
        month == date_month(last_month(now.date))
    IN  {annotate(d, year, month, completed_of(d, year, month, rows)) :
            d \in {a.doctor : a \in {x \in rows :
                       completed_of(x.doctor, year, month, rows) # {}}}}

\* the orders in which a query with no ORDER BY can give the groups
Orders(S) ==
    {q \in [1..Cardinality(S) -> S] : \A x \in S : \E i \in 1..Cardinality(S) : q[i] = x}

MonthlyReportRow(pk, data) ==
    [pk |-> pk, doctor |-> data.doctor, year |-> data.year, month |-> data.month,
     total_appointments |-> data.total_appointments,
     total_patients |-> data.total_patients,
     total_earnings |-> data.total_earnings]

\* the MonthlyReport rows of the key of a group
report_of(data, reps) ==
    {r \in reps : r.doctor = data.doctor /\ r.year = data.year /\ r.month = data.month}

\* MonthlyReport.objects.update_or_create(doctor_id, year, month, defaults):
\* the row of the key is updated, and created when there is none
update_or_create(data, reps) ==
    IF report_of(data, reps) # {}
    THEN {IF r \in report_of(data, reps) THEN MonthlyReportRow(r.pk, data) ELSE r :
             r \in reps}
    ELSE reps \cup {MonthlyReportRow(new_pk("monthlyreport"), data)}

---------------------------------------------------------------------------
(* Sessions: services/authentication.py, services/user_login.py,           *)
(* services/custom_jwt_authentication.py, db_cache.py, utils/api_utils.py   *)
(* and the session views of views.py.  A header value is a JWT signed with   *)
(* the key of the service, a string that is none, or missing; a JWT is the   *)
(* record of its payload.                                                    *)

MsgTokenMissing == "Access token is missing."
MsgTokenExpired == "Token expired!!"
MsgTokenInvalid == "Token expired."
MsgResponseTokenInvalid == "Token expired!"
MsgUnpackBool == "cannot unpack non-iterable bool object"
MsgInactiveUser == "Sorry, your account has been deactivated."
MsgRefreshExpired == "Refresh Token expired!"
MsgNotRegistered == "User not registered."
MsgInvalidCredentials == "Invalid credentials."
MsgInactiveAccount == "User account is inactive."
MsgNoVerifyPassword == "type object 'Authentication' has no attribute 'verify_password'"
MsgNoUsername == "'User' object has no attribute 'username'"
MsgLogin == "Login successful!"
MsgLogout == "Logout successful!"
MsgTokenDoesNotExist == "Token matching query does not exist."
MsgTokenMultiple == "get() returned more than one Token -- it returned 2!"
MsgInvalidTokenType == "Invalid token type"
MsgUnpack == "too many values to unpack (expected 2)"

\* the fields of the User model and of its base Time
UserAttrs ==
    {"id", "fullname", "password", "email", "phone", "profile_picture", "user_type",
     "division", "district", "thana", "license_number", "experience_years",
     "consultation_fee", "is_active", "created_at", "created_by", "updated_at",
     "updated_by"}

\* the names the class Authentication defines
AuthenticationAttrs ==
    {"generate_access_token", "generate_refresh_token",
     "create_access_token_from_refresh_token", "set_password", "check_password",
     "get_browser_fingerprint", "get_current_user"}

NoUser == 0

MissingHeader == [kind |-> "missing"]

Garbage == [kind |-> "garbage"]

NoToken == [kind |-> "none"]

JWT(user, type, exp) == [kind |-> "jwt", user |-> user, token_type |-> type, exp |-> exp]

\* datetime.now(utc) > exp
After(now, t) == now.date > t.date \/ (now.date = t.date /\ now.time > t.time)

\* jwt.decode raises ExpiredSignatureError: exp <= now
ExpiredSignature(now, exp) == ~After(exp, now)

Issued(t) == [kind |-> "valid", exc |-> "", errors |-> {}, token |-> t]

\* Authentication.generate_access_token: the payload names user.username;
\* the token expires 24 hours after now
generate_access_token(user, now) ==
    IF "username" \notin UserAttrs THEN Raise("AttributeError", MsgNoUsername)
    ELSE Issued(JWT(user.pk, "access", [date |-> now.date + 1, time |-> now.time]))

\* Authentication.generate_refresh_token: the token expires 7 days after now
generate_refresh_token(user, now) ==
    IF "username" \notin UserAttrs THEN Raise("AttributeError", MsgNoUsername)
    ELSE Issued(JWT(user.pk, "refresh", [date |-> now.date + 7, time |-> now.time]))

TokenRow(pk, user, access, refresh) ==
    [pk |-> pk, user |-> user, access_token |-> access, refresh_token |-> refresh]

CacheTokenRow(pk, user, key, access) ==
    [pk |-> pk, user |-> user, token_key |-> key, access_token |-> access]

SessionTables(toks, cache) == [tokens |-> toks, cachetokens |-> cache]

\* a delete that leaves the cache entries
delete_token_cache_kept(user_id, toks, cache) ==
    SessionTables({t \in toks : t.user # user_id}, cache)

\* DbCache.delete_token(user_id)
delete_token(user_id, toks, cache) ==
    SessionTables({t \in toks : t.user # user_id}, {r \in cache : r.user # user_id})

\* DbCache.get_token(user_id): CacheToken.objects.filter(user_id).last(), the
\* row of the largest primary key
get_token(user_id, cache) ==
    LET S == {r \in cache : r.user = user_id}
    IN  IF S = {} THEN NoToken
        ELSE (CHOOSE r \in S : \A o \in S : o.pk <= r.pk).access_token

\* ApiUtils.is_access_token_expired(token), a statement at a time:
\* (is_expired, user_id).  At the stage "decode" jwt.decode raises for a
\* string that is no JWT and for a token whose exp is not after the clock;
\* at the stage "now" the clock is read again and compared with exp
is_access_token_expired(stage, token, now) ==
    IF stage = "decode"
    THEN IF token.kind # "jwt" THEN <<TRUE, NoUser>>
         ELSE IF ExpiredSignature(now, token.exp) THEN <<TRUE, NoUser>>
         ELSE <<FALSE, token.user>>
    ELSE IF After(now, token.exp) THEN <<TRUE, NoUser>>
         ELSE <<FALSE, token.user>>

SessionResult(resp, toks, cache) == [resp |-> resp, tokens |-> toks, cachetokens |-> cache]

\* the statements of CustomJWTAuthentication.authenticate(request) that read
\* the clock or a table, in the order the handler runs them
AuthStages == <<"expired", "now", "cached", "decode", "user", "type">>

\* one statement of authenticate: the message of the AuthenticationFailed it
\* raises, or "" when the handler goes on.  What is raised after the second
\* decode, the refusal of a refresh token included, leaves as
\* ResponseMessages.TOKEN_INVALID
authenticate(stage, token, cache, usrs, now) ==
    CASE stage = "expired" ->
            IF token.kind = "missing" THEN MsgTokenMissing
            ELSE IF is_access_token_expired("decode", token, now)[1]
            THEN MsgTokenExpired
            ELSE ""
      [] stage = "now" ->
            IF is_access_token_expired("now", token, now)[1] THEN MsgTokenExpired
            ELSE ""
      [] stage = "cached" ->
            \* user_id is the one is_access_token_expired returned
            IF get_token(token.user, cache) # token THEN MsgTokenInvalid ELSE ""
      [] stage = "decode" ->
            IF ExpiredSignature(now, token.exp) THEN MsgResponseTokenInvalid ELSE ""
      [] stage = "user" ->
            IF get(token.user, usrs) = None THEN MsgNoDataFound ELSE ""
      [] stage = "type" ->
            IF token.token_type = "access" /\ After(now, token.exp)
            THEN MsgResponseTokenInvalid
            ELSE IF token.token_type = "refresh" THEN MsgResponseTokenInvalid
            ELSE ""

\* the stage after a stage, "view" after the last
StageAfter(stage) ==
    IF stage = AuthStages[Len(AuthStages)] THEN "view"
    ELSE AuthStages[(CHOOSE i \in 1..Len(AuthStages) : AuthStages[i] = stage) + 1]

\* CustomJWTAuthentication.jwt_authenticated, for the user authenticate
\* returned: the response that keeps the request from the view, or status 0
\* when the view is called
jwt_authenticated(user) ==
    IF ~user.is_active THEN Response(401, {MsgInactiveUser}) ELSE Response(0, {})

\* Token.objects.get(access_token=token) of logout: DoesNotExist and
\* MultipleObjectsReturned are not caught; status 0 when the row is found
logout(token, toks) ==
    LET rows == {t \in toks : t.access_token = token}
    IN  IF rows = {} THEN Response(500, {MsgTokenDoesNotExist})
        ELSE IF Cardinality(rows) > 1 THEN Response(500, {MsgTokenMultiple})
        ELSE Response(0, {})

\* ApiUtils.delete_tokens_with_same_user_and_platform(user_id): the Token
\* rows of the user are deleted; no view and no task calls it
delete_tokens_with_same_user_and_platform(user_id, toks) ==
    {t \in toks : t.user # user_id}

\* authenticate_user(email, password): the user of the email, then
\* Authentication.verify_password, then is_active
authenticate_user(email, password, usrs) ==
    LET S == {u \in usrs : u.email = email}
    IN  IF S = {} THEN [kind |-> "none", exc |-> "", errors |-> {MsgNotRegistered}]
        ELSE IF "verify_password" \notin AuthenticationAttrs
        THEN Raise("AttributeError", MsgNoVerifyPassword)
        ELSE LET user == CHOOSE u \in S : \A o \in S : u.pk <= o.pk
             IN  IF user.password # password
                 THEN [kind |-> "none", exc |-> "", errors |-> {MsgInvalidCredentials}]
                 ELSE IF ~user.is_active
                 THEN [kind |-> "none", exc |-> "", errors |-> {MsgInactiveAccount}]
                 ELSE [kind |-> "user", exc |-> "", errors |-> {}, user |-> user]

\* ApiUtils.generate_and_store_tokens(user, fingerprint): the rows of the
\* user are deleted before the tokens are generated
generate_and_store_tokens(user, toks, cache, now) ==
    LET d == delete_token(user.pk, toks, cache)
        access == generate_access_token(user, now)
        refresh == generate_refresh_token(user, now)
        key == new_pk("token")
    IN  IF access.kind = "raise"
        THEN SessionResult(Response(500, access.errors), d.tokens, d.cachetokens)
        ELSE IF refresh.kind = "raise"
        THEN SessionResult(Response(500, refresh.errors), d.tokens, d.cachetokens)
        ELSE SessionResult(Response(201, {MsgLogin}),
                 d.tokens \cup {TokenRow(key, user.pk, access.token, refresh.token)},
                 d.cachetokens
                     \cup {CacheTokenRow(new_pk("cachetoken"), user.pk, key, access.token)})

\* UserSessionManagementViewSet.login: no decorator turns an exception into a
\* response, so one that escapes is the framework's 500
login(data, toks, cache, usrs, now) ==
    IF ~({"email", "password"} \subseteq DOMAIN data)
    THEN SessionResult(Response(400, {MsgRequired}), toks, cache)
    ELSE
    LET a == authenticate_user(data["email"], data["password"], usrs)
    IN  IF a.kind = "raise" THEN SessionResult(Response(500, a.errors), toks, cache)
        ELSE IF a.kind = "none" THEN SessionResult(Response(401, a.errors), toks, cache)
        ELSE IF ~a.user.is_active
        THEN SessionResult(Response(422, {MsgInactiveUser}), toks, cache)
        ELSE generate_and_store_tokens(a.user, toks, cache, now)

\* what is_refresh_token_expired returns: the pair (exists, expired), or the
\* bare True of the comparison with the clock
Pair(exists, expired) == [kind |-> "tuple", exists |-> exists, expired |-> expired]

BareTrue == [kind |-> "bool", exists |-> FALSE, expired |-> FALSE]

\* the statements of AccessTokenFromRefreshToken.create that read the clock
\* or a table, in the order the handler runs them: the decode, the
\* comparison with the clock and the query of is_refresh_token_expired, then
\* the decode and the statements from User.objects.get on of
\* create_access_token_from_refresh_token
RefreshStages == <<"decode", "now", "exists", "decode_again", "user">>

\* ApiUtils.is_refresh_token_expired(refresh_token), a statement at a time:
\* what it returns at the stage, or Pass when it goes on
is_refresh_token_expired(stage, token, toks, now) ==
    CASE stage = "decode" ->
            IF token.kind # "jwt" THEN Pair(FALSE, TRUE)
            ELSE IF ExpiredSignature(now, token.exp) THEN Pair(FALSE, TRUE)
            ELSE Pass
      [] stage = "now" -> IF After(now, token.exp) THEN BareTrue ELSE Pass
      [] stage = "exists" -> Pair(\E t \in toks : t.refresh_token = token, FALSE)

\* Authentication.create_access_token_from_refresh_token from
\* User.objects.get on, behind AccessTokenFromRefreshToken.create: the new
\* row stores the refresh token that was presented, the response returns the
\* one just generated
create_access_token_from_refresh_token(token, toks, cache, usrs, now) ==
    IF ~\E u \in usrs : u.pk = token.user
    THEN SessionResult(Response(422, {MsgUnpack}), toks, cache)
    ELSE LET user == CHOOSE u \in usrs : u.pk = token.user
             access == generate_access_token(user, now)
             refresh == generate_refresh_token(user, now)
             rows == {t \in toks : t.user = user.pk}
             d == delete_token(user.pk, toks, cache)
             key == new_pk("token")
         IN  IF access.kind = "raise"
             THEN SessionResult(handle_exception(access), toks, cache)
             ELSE IF refresh.kind = "raise"
             THEN SessionResult(handle_exception(refresh), toks, cache)
             ELSE IF rows = {}
             THEN SessionResult(Response(422, {MsgUnpack}), toks, cache)
             ELSE IF Cardinality(rows) > 1
             THEN SessionResult(Response(500, {MsgTokenMultiple}), toks, cache)
             ELSE SessionResult(Response(201, {MsgSuccess}),
                      d.tokens \cup {TokenRow(key, user.pk, access.token, token)},
                      d.cachetokens
                          \cup {CacheTokenRow(new_pk("cachetoken"), user.pk, key,
                                              access.token)})

\* AccessTokenFromRefreshToken.create, a statement at a time: the response
\* and the tables when the handler ends at the stage, status 0 when it goes
\* on.  The bare True cannot be unpacked; the string the decode of an
\* expired token makes create_access_token_from_refresh_token return cannot
\* be unpacked into two names
refresh_token_create(stage, token, toks, cache, usrs, now) ==
    LET go == SessionResult(Response(0, {}), toks, cache)
        e == is_refresh_token_expired(stage, token, toks, now)
    IN  CASE stage \in {"decode", "now", "exists"} ->
                IF e = Pass THEN go
                ELSE IF e.kind = "bool"
                THEN SessionResult(handle_exception(Raise("TypeError", MsgUnpackBool)),
                                   toks, cache)
                ELSE IF e.expired \/ ~e.exists
                THEN SessionResult(Response(400, {MsgRefreshExpired}), toks, cache)
                ELSE go
          [] stage = "decode_again" ->
                IF ExpiredSignature(now, token.exp)
                THEN SessionResult(Response(422, {MsgUnpack}), toks, cache)
                ELSE IF token.token_type # "refresh"
                THEN SessionResult(Response(422, {MsgInvalidTokenType}), toks, cache)
                ELSE go
          [] stage = "user" ->
                create_access_token_from_refresh_token(token, toks, cache, usrs, now)

---------------------------------------------------------------------------
(* Requests *)

Clients == {1, 2}

Empty == [f \in {} |-> 0]

NoClock == [date |-> 0, time |-> 0]

\* A client's request: where its handler stands (pc), the handler (op), the
\* primary key of the URL, the body, the instance the handler fetched, the
\* outcome of is_valid(), the instant the handler read, whether the booking
\* contract admitted the request when it arrived, whether another request
\* was being handled at some moment of its handling, and the response
Idle == [pc |-> "idle", op |-> "none", pk |-> 0, data |-> Empty, instance |-> None,
         out |-> Pass, now |-> NoClock, alone |-> FALSE, overlap |-> FALSE,
         resp |-> Response(0, {})]

Done(op, pk, data, now, alone, resp) ==
    [pc |-> "done", op |-> op, pk |-> pk, data |-> data, instance |-> None,
     out |-> Pass, now |-> now, alone |-> alone, overlap |-> FALSE, resp |-> resp]

\* what a client may put in the read-only fields of a body
Extras == {Empty, [status |-> "confirmed", consultation_fee |-> 1]}

Merge(f, g) ==
    [x \in (DOMAIN f) \cup (DOMAIN g) |-> IF x \in DOMAIN f THEN f[x] ELSE g[x]]

\* the bodies of booking requests of patient p
CreateBodies(p) ==
    {Merge([patient |-> p, doctor |-> d, appointment_date |-> dt,
            appointment_time |-> t, notes |-> "a"], e) :
        d \in Doctors, dt \in Dates, t \in TimeValues, e \in Extras}

\* The booking contract (steps 1 to 5): the date is not before the current
\* date, the time is within 09:00 to 17:00, the instant is in the future, a
\* slot of the doctor on the weekday of the date holds the time, and no
\* pending or confirmed appointment has the same doctor, date and time
Admits(data, rows, slots, now) ==
    /\ data["appointment_date"] >= now.date
    /\ data["appointment_time"] >= 540 /\ data["appointment_time"] <= 1020
    /\ ~NotAfter(data["appointment_date"], data["appointment_time"], now)
    /\ \E s \in slots :
          /\ s.doctor = data["doctor"]
          /\ s.weekday = weekday(data["appointment_date"])
          /\ s.start_time <= data["appointment_time"]
          /\ data["appointment_time"] < s.end_time
    /\ ~\E a \in rows :
          /\ a.doctor = data["doctor"]
          /\ a.appointment_date = data["appointment_date"]
          /\ a.appointment_time = data["appointment_time"]
          /\ a.status \in {"pending", "confirmed"}

---------------------------------------------------------------------------
(* Accounts: UserSerializer, DoctorProfileSerializer, UserViewSet and        *)
(* DoctorProfileViewSet.  A body carries the fields named here; the name     *)
(* and the phone of a registration are not modelled.  The number 0 is a      *)
(* null license number, "" an empty experience.                              *)

\* a User row: the email is the number of the address
UserRow(pk, type, active) ==
    [pk |-> pk, email |-> pk, password |-> "p", user_type |-> type, is_active |-> active,
     license_number |-> 0, experience_years |-> "", consultation_fee |-> 0]

\* a DoctorProfile row
ProfileRow(pk, user) == [pk |-> pk, user |-> user, is_available |-> TRUE]

\* the User row of a doctor: the license number is the key
DoctorRow(pk, f) ==
    [UserRow(pk, "DOCTOR", TRUE) EXCEPT !.license_number = pk, !.experience_years = "3",
                                        !.consultation_fee = f]

ROLE_TYPE_CHOICES == {"ADMIN", "DOCTOR", "PATIENT"}

MsgNotAChoice == "is not a valid choice."
MsgEmailExists == "user with this email already exists."
MsgLicenseExists == "user with this license number already exists."
MsgRequiredForDoctors == "is required for doctors."
MsgWeakPassword == "Password must be at least 8 characters long."
MsgProfileExists == "doctor profile with this user already exists."
MsgInvalidPk == "Invalid pk - object does not exist."
MsgMustBeDoctor == "Associated user must be type of DOCTOR"

\* attrs.get(field) is falsy
Falsy(attrs, field) ==
    \/ field \notin DOMAIN attrs
    \/ IF field = "experience_years" THEN attrs[field] = "" ELSE attrs[field] = 0

\* the passwords validate_password_strength lets through
StrongPasswords == {"Str0ng!pw"}

\* django.contrib.auth.hashers.make_password
make_password(password) == <<"pbkdf2_sha256", password>>

\* the field pass of UserSerializer: required fields unless partial, the
\* choices of user_type, the unique email and license number
UserSerializer_fields(data, instance, usrs, partial) ==
    LET others == {u \in usrs : u.pk # instance}
    IN  {MsgRequired : f \in {g \in {"email", "user_type", "password"} :
                                  ~partial /\ g \notin DOMAIN data}}
        \cup {MsgNotAChoice : f \in {g \in {"user_type"} :
                  g \in DOMAIN data /\ data[g] \notin ROLE_TYPE_CHOICES}}
        \cup {MsgEmailExists : f \in {g \in {"email"} :
                  g \in DOMAIN data /\ \E u \in others : u.email = data[g]}}
        \cup {MsgLicenseExists : f \in {g \in {"license_number"} :
                  g \in DOMAIN data /\ data[g] # 0
                      /\ \E u \in others : u.license_number = data[g]}}

\* UserSerializer.validate(attrs) after the field pass: the outcome and the
\* validated data
UserSerializer_validate(data, instance, usrs, partial) ==
    LET errors == UserSerializer_fields(data, instance, usrs, partial)
    IN  IF errors # {} THEN [out |-> Reject(errors), attrs |-> data]
        ELSE IF /\ "user_type" \in DOMAIN data
                /\ data["user_type"] = "DOCTOR"
                /\ \E f \in {"license_number", "experience_years", "consultation_fee"} :
                       Falsy(data, f)
        THEN [out |-> Reject({MsgRequiredForDoctors}), attrs |-> data]
        ELSE IF "password" \in DOMAIN data /\ data["password"] \notin StrongPasswords
        THEN [out |-> Reject({MsgWeakPassword}), attrs |-> data]
        ELSE [out |-> Pass, attrs |-> Merge([is_active |-> TRUE], data)]

\* UserViewSet.create: UserSerializer.create hashes the password
User_create(data, usrs) ==
    LET v == UserSerializer_validate(data, 0, usrs, FALSE)
        hashed == [v.attrs EXCEPT !["password"] = make_password(v.attrs["password"])]
    IN  IF v.out.kind # "valid" THEN Result(Response(422, v.out.errors), usrs)
        ELSE Result(Response(201, {MsgSuccess}),
                    usrs \cup {Merge([pk |-> new_pk("user")],
                                     Merge(hashed, UserRow(0, "", TRUE)))})

\* UserViewSet.partial_update: GenericRepository.partial_update sets every
\* validated attribute on the instance and saves it
User_partial_update(pk, data, usrs) ==
    LET instance == get(pk, usrs)
        v == UserSerializer_validate(data, pk, usrs, TRUE)
    IN  IF instance = None THEN Result(Response(404, {MsgNoDataFound}), usrs)
        ELSE IF v.out.kind # "valid" THEN Result(Response(400, v.out.errors), usrs)
        ELSE Result(Response(200, {MsgSuccess}),
                    (usrs \ {instance}) \cup {Merge(v.attrs, instance)})

\* DoctorProfileSerializer: the field pass of user (required unless partial,
\* a stored user, no profile of that user yet), then validate(attrs)
DoctorProfileSerializer_validate(data, instance, profiles, usrs, partial) ==
    LET others == {q \in profiles : instance = None \/ q.pk # instance.pk}
        user == IF "user" \in DOMAIN data THEN get(data["user"], usrs)
                ELSE IF instance # None THEN get(instance.user, usrs)
                ELSE None
    IN  IF "user" \notin DOMAIN data /\ ~partial THEN Reject({MsgRequired})
        ELSE IF "user" \in DOMAIN data /\ user = None THEN Reject({MsgInvalidPk})
        ELSE IF "user" \in DOMAIN data /\ \E q \in others : q.user = data["user"]
        THEN Reject({MsgProfileExists})
        ELSE IF user # None /\ user.user_type # "DOCTOR" THEN Reject({MsgMustBeDoctor})
        ELSE Pass

\* DoctorProfileViewSet.create
DoctorProfile_create(data, profiles, usrs) ==
    LET out == DoctorProfileSerializer_validate(data, None, profiles, usrs, FALSE)
    IN  IF out.kind # "valid" THEN Result(Response(422, out.errors), profiles)
        ELSE Result(Response(201, {MsgSuccess}),
                    profiles \cup {Merge(data, ProfileRow(new_pk("doctorprofile"), 0))})

\* DoctorProfileViewSet.partial_update
DoctorProfile_partial_update(pk, data, profiles, usrs) ==
    LET instance == get(pk, profiles)
        out == DoctorProfileSerializer_validate(data, instance, profiles, usrs, TRUE)
    IN  IF instance = None THEN Result(Response(404, {MsgNoDataFound}), profiles)
        ELSE IF out.kind # "valid" THEN Result(Response(400, out.errors), profiles)
        ELSE Result(Response(200, {MsgSuccess}),
                    (profiles \ {instance}) \cup {Merge(data, instance)})

\* on_delete=CASCADE of a ForeignKey or OneToOneField: the children whose
\* parent is still stored
CASCADE(field, parents, children) ==
    {r \in children : \E q \in parents : q.pk = r[field]}

\* AppointmentStatusLog.changed_by, on_delete=SET_NULL
SET_NULL(parents, logs) ==
    {IF \E q \in parents : q.pk = l.changed_by THEN l ELSE [l EXCEPT !.changed_by = NoUser] :
        l \in logs}

\* UserViewSet.destroy: get_by_id gives None for a key that is not stored
User_destroy(pk, usrs) ==
    IF get(pk, usrs) = None THEN Result(Response(404, {MsgNoDataFound}), usrs)
    ELSE Result(Response(204, {MsgDeleted}), {u \in usrs : u.pk # pk})

\* DoctorProfileViewSet.destroy
DoctorProfile_destroy(pk, profiles) ==
    IF get(pk, profiles) = None THEN Result(Response(404, {MsgNoDataFound}), profiles)
    ELSE Result(Response(204, {MsgDeleted}), {q \in profiles : q.pk # pk})

---------------------------------------------------------------------------
(* The store when the handlers start: any rows the tables admit, within    *)
(* the bounds                                                               *)

SeedRow(pk, d, t, s) ==
    [pk |-> pk, patient |-> 3, doctor |-> d, appointment_date |-> Today + 1,
     appointment_time |-> t, notes |-> "a", status |-> s, consultation_fee |-> 50]

\* rows of either doctor at 10:00
SeedRowsAny(pk) == {SeedRow(pk, d, 600, s) : d \in Doctors, s \in STATUS_CHOICES}

\* the row of key pk: doctor 1 and doctor 2 in turn, at 10:00 and then at 13:00
SeedRows(pk) ==
    {SeedRow(pk, ((pk - 1) % 2) + 1, IF pk <= 2 THEN 600 ELSE 780, s) :
        s \in STATUS_CHOICES}

RECURSIVE SeedTables(_)
SeedTables(n) ==
    IF n = 0 THEN {{}}
    ELSE SeedTables(n - 1)
         \cup {S \cup {r} : S \in {T \in SeedTables(n - 1) : Cardinality(T) = n - 1},
                           r \in SeedRows(n)}

RECURSIVE SeedTablesAny(_)
SeedTablesAny(n) ==
    IF n = 0 THEN {{}}
    ELSE SeedTablesAny(n - 1)
         \cup {S \cup {r} : S \in {T \in SeedTablesAny(n - 1) : Cardinality(T) = n - 1},
                           r \in SeedRowsAny(n)}

Slot(pk, d, w, s, e) ==
    [pk |-> pk, doctor |-> d, weekday |-> w, start_time |-> s, end_time |-> e]

\* doctor 1 from 09:00 to 12:00 on the integer booking derives for Today + 1
\* and no slot of doctor 2; doctor 1 from 08:00 to 18:00 on that integer and
\* doctor 2 from 09:00 to 12:00 on the integer WEEKDAY_CHOICES labels Monday
SeedSlots ==
    {{Slot(1, 1, weekday(Today + 1), 540, 720)},
     {Slot(1, 1, weekday(Today + 1), 480, 1080), Slot(2, 2, 3, 540, 720)}}

\* the keys of the appointments the jobs meet
JobKeys == 1..3

\* doctor.user.consultation_fee of each doctor profile
fee == [d \in Doctors |-> get(get(d, doctorprofiles).user, users).consultation_fee]

\* the sequences when the handlers start: the largest key of each table
LastValues ==
    [appointment |-> MaxPk(appointments), timeslot |-> MaxPk(timeslots),
     appointmentstatuslog |-> MaxPk(statuslogs),
     appointmentreminder |-> MaxPk(reminders), monthlyreport |-> MaxPk(reports),
     token |-> MaxPk(tokens), cachetoken |-> MaxPk(cachetokens),
     user |-> MaxPk(users), doctorprofile |-> MaxPk(doctorprofiles)]

\* no job has run, nobody has logged in, and the users and profiles the
\* appointments refer to are stored: patients 1 to 3, and the users 4 and 5
\* of the doctor profiles 1 and 2
InitRest ==
    /\ reminders = {}
    /\ outbox = [k \in JobKeys |-> 0]
    /\ reports = {}
    /\ worker = [w \in Workers |-> IdleWorker]
    /\ tokens = {}
    /\ cachetokens = {}
    /\ users = {UserRow(u, "PATIENT", TRUE) : u \in 1..3}
                   \cup {DoctorRow(u, 50) : u \in 4..5}
    /\ doctorprofiles = {ProfileRow(d, d + 3) : d \in Doctors}
    /\ sequence = LastValues

\* the instants timezone.now() returns, in order: 10:00 of Today, 13:00 of the
\* next day, 10:00 of the day after
ClockValues == <<[date |-> Today, time |-> 600],
                 [date |-> Today + 1, time |-> 780],
                 [date |-> Today + 2, time |-> 600]>>

ClockIndex == CHOOSE i \in 1..Len(ClockValues) : ClockValues[i] = clock

Init ==
    /\ clock = ClockValues[1]
    /\ timeslots \in SeedSlots
    /\ appointments \in {S \in SeedTables(MaxSeed) : unique_together(S)}
    /\ client = [c \in Clients |-> Idle]
    /\ statuslogs = {}
    /\ InitRest

---------------------------------------------------------------------------
(* Actions: one whole handler each *)

\* the instants a handler can read after it has read the instant t
LaterThan(t) ==
    {ClockValues[i] : i \in (CHOOSE j \in 1..Len(ClockValues) : ClockValues[j] = t)
                                ..Len(ClockValues)}

\* the instants a handler that started at the clock can read later on
Later == LaterThan(clock)

\* POST appointment/create/: the handler reads the clock in the field pass
\* and again, at the instant later, in validate()
Create(c, data, later) ==
    LET out == run_validation(data, None, FALSE, appointments, timeslots, clock, later)
        r == create(data, appointments, timeslots, clock, later, fee)
    IN  /\ appointments' = r.rows
        /\ clock' = later
        /\ sequence' = IF out.kind = "valid" THEN nextval("appointment") ELSE sequence
        /\ client' = [client EXCEPT ![c] =
               Done("create", 0, data, clock,
                    Admits(data, appointments, timeslots, clock), r.resp)]
        /\ UNCHANGED <<timeslots, statuslogs, jobvars, authvars, accountvars>>

PartialUpdate(c, pk, data) ==
    LET r == partial_update(pk, data, appointments, timeslots, clock, clock)
    IN  /\ appointments' = r.rows
        /\ client' = [client EXCEPT ![c] =
               [Done("partial_update", pk, data, clock, FALSE, r.resp)
                    EXCEPT !.instance = get(pk, appointments)]]
        /\ UNCHANGED <<clock, timeslots, statuslogs, jobvars, authvars, accountvars, sequence>>

Destroy(c, pk) ==
    LET r == destroy(pk, appointments)
    IN  /\ appointments' = r.rows
        /\ statuslogs' = on_delete_CASCADE(r.rows, statuslogs)
        /\ reminders' = on_delete_CASCADE(r.rows, reminders)
        /\ client' = [client EXCEPT ![c] =
               Done("destroy", pk, Empty, clock, FALSE, r.resp)]
        /\ UNCHANGED <<clock, timeslots, outbox, reports, worker, authvars, accountvars, sequence>>

\* UserViewSet.partial_update of the user of doctor d with a body that names
\* the consultation_fee
ChangeFee(c, d, f) ==
    LET user == get(d, doctorprofiles).user
        r == User_partial_update(user, [consultation_fee |-> f], users)
    IN  /\ users' = r.rows
        /\ client' = [client EXCEPT ![c] =
               Done("user_update", user, [consultation_fee |-> f], clock, FALSE, r.resp)]
        /\ UNCHANGED <<clock, timeslots, appointments, statuslogs, jobvars, authvars,
                       doctorprofiles, sequence>>

\* timezone.now() moves forward
Tick ==
    /\ ClockIndex < Len(ClockValues)
    /\ clock' = ClockValues[ClockIndex + 1]
    /\ UNCHANGED <<timeslots, appointments, client, statuslogs, jobvars, authvars, accountvars, sequence>>

Next ==
    \/ \E data \in CreateBodies(1), later \in Later : Create(1, data, later)
    \/ \E pk \in 1..MaxSeed : Destroy(1, pk)
    \/ \E f \in Fees : ChangeFee(1, 1, f)
    \/ Tick

Spec == Init /\ [][Next]_vars

---------------------------------------------------------------------------
(* Updates of stored appointments, one whole handler each *)

Optional(f, values) == {Empty} \cup {[x \in {f} |-> v] : v \in values}

\* partial bodies: any of doctor, appointment_date, appointment_time and notes,
\* and a body that names only the read-only status
UpdateBodies ==
    {Merge(Merge(d, dt), Merge(t, n)) :
        d \in Optional("doctor", Doctors),
        dt \in Optional("appointment_date", {Today - 1, Today + 1}),
        t \in Optional("appointment_time", {480, 600, 780}),
        n \in Optional("notes", {"b"})}
    \cup {[status |-> "pending"]}

InitUpdate ==
    /\ clock = ClockValues[1]
    /\ timeslots = {Slot(1, 1, weekday(Today + 1), 480, 1080), Slot(2, 2, 3, 540, 720)}
    /\ appointments \in {S \in SeedTables(MaxSeed) : unique_together(S)}
    /\ client = [c \in Clients |-> Idle]
    /\ statuslogs = {}
    /\ InitRest

NextUpdate ==
    \/ \E pk \in 1..(MaxSeed + 1), data \in UpdateBodies : PartialUpdate(1, pk, data)
    \/ \E pk \in 1..MaxSeed : Destroy(1, pk)

SpecUpdate == InitUpdate /\ [][NextUpdate]_vars

---------------------------------------------------------------------------
(* Concurrent requests: a handler reads the table in is_valid() and writes *)
(* it in save(), and the handlers of other requests run in between          *)

RaceCreateBodies(p) ==
    {[patient |-> p, doctor |-> 1, appointment_date |-> Today + 1,
      appointment_time |-> t, notes |-> "a"] : t \in {600, 780}}

RaceUpdateBodies ==
    {[doctor |-> d, appointment_date |-> Today + 1, appointment_time |-> t] :
        d \in Doctors, t \in {600, 780}}
    \cup {[notes |-> "b"]}

Ready(c) == client[c].pc \in {"idle", "done"}

InFlight(c) == client[c].pc \notin {"idle", "done"}

\* client c starts the request rec: it overlaps the requests in flight
Begin(c, rec) ==
    client' = [o \in Clients |->
        IF o = c THEN [rec EXCEPT !.overlap = \E x \in Clients \ {c} : InFlight(x)]
        ELSE IF InFlight(o) THEN [client[o] EXCEPT !.overlap = TRUE]
        ELSE client[o]]

BeginCreate(c, data) ==
    /\ Ready(c)
    /\ Begin(c, [Idle EXCEPT !.pc = "received", !.op = "create", !.data = data,
                             !.now = clock,
                             !.alone = Admits(data, appointments, timeslots, clock)])
    /\ UNCHANGED <<clock, timeslots, appointments, statuslogs, jobvars, authvars, accountvars, sequence>>

\* Appointment.objects.get(pk=pk) of partial_update
BeginUpdate(c, pk, data) ==
    /\ Ready(c)
    /\ IF get(pk, appointments) = None
       THEN client' = [client EXCEPT ![c] =
                Done("partial_update", pk, data, clock, FALSE,
                     not_found(appointments).resp)]
       ELSE Begin(c, [Idle EXCEPT !.pc = "received", !.op = "partial_update",
                                  !.pk = pk, !.data = data, !.now = clock,
                                  !.instance = get(pk, appointments)])
    /\ UNCHANGED <<clock, timeslots, appointments, statuslogs, jobvars, authvars, accountvars, sequence>>

\* serializer.is_valid()
IsValid(c) ==
    /\ client[c].pc = "received"
    /\ client' = [client EXCEPT ![c].pc = "validated",
                                ![c].out = run_validation(client[c].data,
                                               client[c].instance,
                                               client[c].op = "partial_update",
                                               appointments, timeslots, clock, clock)]
    /\ UNCHANGED <<clock, timeslots, appointments, statuslogs, jobvars, authvars, accountvars, sequence>>

\* serializer.save() and the response
Finish(c) ==
    /\ client[c].pc = "validated"
    /\ LET r == IF client[c].op = "create"
                THEN create_finish(client[c].out, client[c].data, appointments, fee)
                ELSE update_finish(client[c].out, client[c].instance,
                                   client[c].data, appointments)
       IN  /\ appointments' = r.rows
           /\ client' = [client EXCEPT ![c] =
                  [Done(client[c].op, client[c].pk, client[c].data, client[c].now,
                        client[c].alone, r.resp)
                       EXCEPT !.instance = client[c].instance,
                              !.overlap = client[c].overlap]]
    /\ sequence' = IF client[c].op = "create" /\ client[c].out.kind = "valid"
                   THEN nextval("appointment") ELSE sequence
    /\ UNCHANGED <<clock, timeslots, statuslogs, jobvars, authvars, accountvars>>

InitRace ==
    /\ clock = ClockValues[1]
    /\ timeslots = {Slot(1, 1, weekday(Today + 1), 540, 840)}
    /\ appointments \in {S \in SeedTablesAny(MaxSeed + 1) : unique_together(S)}
    /\ client = [c \in Clients |-> Idle]
    /\ statuslogs = {}
    /\ InitRest

NextRace ==
    \E c \in Clients :
        \/ \E data \in RaceCreateBodies(c) : BeginCreate(c, data)
        \/ \E pk \in 1..(MaxSeed + 1), data \in RaceUpdateBodies : BeginUpdate(c, pk, data)
        \/ IsValid(c)
        \/ Finish(c)

SpecRace == InitRace /\ [][NextRace]_vars

---------------------------------------------------------------------------
(* Updates that move an appointment: two appointments of doctor 1 on the   *)
(* same date, at 10:00 and at 13:00, inside a slot of the doctor           *)

InitMove ==
    /\ clock = ClockValues[1]
    /\ timeslots = {Slot(1, 1, weekday(Today + 1), 480, 1080)}
    /\ appointments \in {{SeedRow(1, 1, 600, s1), SeedRow(2, 1, 780, s2)} :
                             s1 \in STATUS_CHOICES, s2 \in STATUS_CHOICES}
    /\ client = [c \in Clients |-> Idle]
    /\ statuslogs = {}
    /\ InitRest

NextMove == \E pk \in 1..2, data \in UpdateBodies : PartialUpdate(1, pk, data)

SpecMove == InitMove /\ [][NextMove]_vars

---------------------------------------------------------------------------
(* Requests to TimeSlotViewSet, one whole handler each.  The table starts  *)
(* empty and an appointment of doctor 1 at 10:00 of the next day is stored  *)

SlotTimes == {540, 600, 660}

\* the doctor and weekday of the bodies: doctor 1 on the integer booking
\* derives for Today + 1 and on 3, doctor 2 on the former
SlotOwners == {<<1, weekday(Today + 1)>>, <<1, 3>>, <<2, weekday(Today + 1)>>}

SlotBodies ==
    {[doctor |-> o[1], weekday |-> o[2], start_time |-> s, end_time |-> e] :
        o \in SlotOwners, s \in SlotTimes, e \in SlotTimes}

\* full bodies of doctor 1, and partial bodies with one of the two times
SlotUpdateBodies ==
    {b \in SlotBodies : b.doctor = 1}
    \cup {[start_time |-> t] : t \in SlotTimes}
    \cup {[end_time |-> t] : t \in SlotTimes}

\* no stored slot of the doctor and weekday of the body overlaps its range
\* (existing.start < new.end and existing.end > new.start)
SlotAdmits(data, slots) ==
    ~\E s \in slots :
          /\ s.doctor = data["doctor"] /\ s.weekday = data["weekday"]
          /\ s.start_time < data["end_time"] /\ s.end_time > data["start_time"]

SlotCreate(c, data) ==
    /\ new_pk("timeslot") <= MaxSlotPk
    /\ LET r == TimeSlot_create(data, timeslots)
       IN  /\ timeslots' = r.rows
           /\ client' = [client EXCEPT ![c] =
                  Done("slot_create", 0, data, clock, SlotAdmits(data, timeslots),
                       r.resp)]
    /\ sequence' = IF TimeSlot_run_validation(data, None, FALSE, timeslots).kind = "valid"
                   THEN nextval("timeslot") ELSE sequence
    /\ UNCHANGED <<clock, appointments, statuslogs, jobvars, authvars, accountvars>>

SlotPartialUpdate(c, pk, data) ==
    LET r == TimeSlot_partial_update(pk, data, timeslots)
    IN  /\ timeslots' = r.rows
        /\ client' = [client EXCEPT ![c] =
               [Done("slot_partial_update", pk, data, clock, FALSE, r.resp)
                    EXCEPT !.instance = get(pk, timeslots)]]
        /\ UNCHANGED <<clock, appointments, statuslogs, jobvars, authvars, accountvars, sequence>>

SlotDestroy(c, pk) ==
    LET r == TimeSlot_destroy(pk, timeslots)
        slot == get(pk, timeslots)
        rows == IF slot = None THEN appointments
                ELSE TimeSlot_on_delete(slot, appointments)
    IN  /\ timeslots' = r.rows
        /\ appointments' = rows
        /\ statuslogs' = on_delete_CASCADE(rows, statuslogs)
        /\ reminders' = on_delete_CASCADE(rows, reminders)
        /\ client' = [client EXCEPT ![c] =
               [Done("slot_destroy", pk, Empty, clock, FALSE, r.resp)
                    EXCEPT !.instance = slot]]
        /\ UNCHANGED <<clock, outbox, reports, worker, authvars, accountvars, sequence>>

InitSlots ==
    /\ clock = ClockValues[1]
    /\ timeslots = {}
    /\ appointments = {SeedRow(1, 1, 600, "pending")}
    /\ client = [c \in Clients |-> Idle]
    /\ statuslogs = {}
    /\ InitRest

NextSlots ==
    \/ \E data \in SlotBodies : SlotCreate(1, data)
    \/ \E pk \in 1..MaxSlotPk, data \in SlotUpdateBodies : SlotPartialUpdate(1, pk, data)
    \/ \E pk \in 1..MaxSlotPk : SlotDestroy(1, pk)

SpecSlots == InitSlots /\ [][NextSlots]_vars

---------------------------------------------------------------------------
(* Concurrent requests to TimeSlotViewSet: is_valid() reads the table,     *)
(* save() writes it, and the handlers of other requests run in between      *)

\* slots of doctor 1 on the integer booking derives for Today + 1
RaceSlotBodies ==
    {b \in SlotBodies : /\ b.doctor = 1 /\ b.weekday = weekday(Today + 1)
                        /\ b.start_time < b.end_time}

BeginSlotCreate(c, data) ==
    /\ Ready(c)
    /\ new_pk("timeslot")
         + Cardinality({o \in Clients : InFlight(o) /\ client[o].op = "slot_create"})
       <= MaxSlotPk
    /\ Begin(c, [Idle EXCEPT !.pc = "received", !.op = "slot_create", !.data = data,
                             !.now = clock,
                             !.alone = SlotAdmits(data, timeslots)])
    /\ UNCHANGED <<clock, timeslots, appointments, statuslogs, jobvars, authvars, accountvars, sequence>>

\* TimeSlot.objects.get(pk=pk) of partial_update
BeginSlotUpdate(c, pk, data) ==
    /\ Ready(c)
    /\ IF get(pk, timeslots) = None
       THEN client' = [client EXCEPT ![c] =
                Done("slot_partial_update", pk, data, clock, FALSE,
                     TimeSlot_not_found(timeslots).resp)]
       ELSE Begin(c, [Idle EXCEPT !.pc = "received", !.op = "slot_partial_update",
                                  !.pk = pk, !.data = data, !.now = clock,
                                  !.instance = get(pk, timeslots)])
    /\ UNCHANGED <<clock, timeslots, appointments, statuslogs, jobvars, authvars, accountvars, sequence>>

\* serializer.is_valid() up to the query of the unique-together validator;
\* validate() follows when the validators pass
SlotIsValid(c) ==
    /\ client[c].pc = "received"
    /\ LET out == TimeSlot_run_validators(client[c].data, client[c].instance,
                                          client[c].op = "slot_partial_update",
                                          timeslots)
       IN  client' = [client EXCEPT ![c].pc = IF out = Pass THEN "unique" ELSE "validated",
                                    ![c].out = out]
    /\ UNCHANGED <<clock, timeslots, appointments, statuslogs, jobvars, authvars, accountvars, sequence>>

\* validate() of serializer.is_valid(), with the overlap query
SlotValidate(c) ==
    /\ client[c].pc = "unique"
    /\ client' = [client EXCEPT ![c].pc = "validated",
                                ![c].out = TimeSlot_validate(client[c].data,
                                               client[c].instance, timeslots)]
    /\ UNCHANGED <<clock, timeslots, appointments, statuslogs, jobvars, authvars, accountvars, sequence>>

\* serializer.save() and the response
SlotFinish(c) ==
    /\ client[c].pc = "validated"
    /\ LET r == IF client[c].op = "slot_create"
                THEN TimeSlot_create_finish(client[c].out, client[c].data, timeslots)
                ELSE TimeSlot_update_finish(client[c].out, client[c].instance,
                                            client[c].data, timeslots)
       IN  /\ timeslots' = r.rows
           /\ client' = [client EXCEPT ![c] =
                  [Done(client[c].op, client[c].pk, client[c].data, client[c].now,
                        client[c].alone, r.resp)
                       EXCEPT !.instance = client[c].instance,
                              !.overlap = client[c].overlap]]
    /\ sequence' = IF client[c].op = "slot_create" /\ client[c].out.kind = "valid"
                   THEN nextval("timeslot") ELSE sequence
    /\ UNCHANGED <<clock, appointments, statuslogs, jobvars, authvars, accountvars>>

\* TimeSlot.objects.get(pk=pk) of destroy, the first of the two
BeginSlotDestroy(c, pk) ==
    /\ Ready(c)
    /\ IF get(pk, timeslots) = None
       THEN client' = [client EXCEPT ![c] =
                Done("slot_destroy", pk, Empty, clock, FALSE,
                     TimeSlot_not_found(timeslots).resp)]
       ELSE Begin(c, [Idle EXCEPT !.pc = "found", !.op = "slot_destroy", !.pk = pk,
                                  !.now = clock, !.instance = get(pk, timeslots)])
    /\ UNCHANGED <<clock, timeslots, appointments, statuslogs, jobvars, authvars, accountvars, sequence>>

\* TimeSlot.objects.get(pk=pk) of destroy, the second, whose row delete() is
\* called on
SlotGetAgain(c) ==
    /\ client[c].pc = "found"
    /\ IF get(client[c].pk, timeslots) = None
       THEN client' = [client EXCEPT ![c] =
                [Done("slot_destroy", client[c].pk, Empty, client[c].now, FALSE,
                      TimeSlot_not_found(timeslots).resp)
                     EXCEPT !.instance = client[c].instance,
                            !.overlap = client[c].overlap]]
       ELSE client' = [client EXCEPT ![c].pc = "fetched"]
    /\ UNCHANGED <<clock, timeslots, appointments, statuslogs, jobvars, authvars, accountvars, sequence>>

\* delete() of the row fetched: the DELETE of a row that is gone deletes
\* nothing and raises nothing
SlotDelete(c) ==
    /\ client[c].pc = "fetched"
    /\ LET slot == get(client[c].pk, timeslots)
           rows == IF slot = None THEN appointments
                   ELSE TimeSlot_on_delete(slot, appointments)
       IN  /\ timeslots' = {s \in timeslots : s.pk # client[c].pk}
           /\ appointments' = rows
           /\ statuslogs' = on_delete_CASCADE(rows, statuslogs)
           /\ reminders' = on_delete_CASCADE(rows, reminders)
           /\ client' = [client EXCEPT ![c] =
                  [Done("slot_destroy", client[c].pk, Empty, client[c].now, FALSE,
                        Response(204, {MsgDeleted}))
                       EXCEPT !.instance = client[c].instance,
                              !.overlap = client[c].overlap]]
    /\ UNCHANGED <<clock, outbox, reports, worker, authvars, accountvars, sequence>>

NextSlotRace ==
    \E c \in Clients :
        \/ \E data \in RaceSlotBodies : BeginSlotCreate(c, data)
        \/ \E pk \in 1..MaxSlotPk, data \in RaceSlotBodies : BeginSlotUpdate(c, pk, data)
        \/ SlotIsValid(c)
        \/ SlotValidate(c)
        \/ SlotFinish(c)
        \/ \E pk \in 1..MaxSlotPk : BeginSlotDestroy(c, pk)
        \/ SlotGetAgain(c)
        \/ SlotDelete(c)

SpecSlotRace == InitSlots /\ [][NextSlotRace]_vars

---------------------------------------------------------------------------
(* AppointmentLifecycle.  models.py declares Appointment.status with its   *)
(* STATUS_CHOICES and the AppointmentStatusLog table, and the serializer    *)
(* makes status read-only; no handler under src/ changes a status or        *)
(* writes the log.  The transition operation is the one of section 4.3 of   *)
(* the specification: it checks the edge, appends one log entry and         *)
(* commits the new status.                                                  *)

MsgIllegalTransition == "IllegalTransition"

Actors == {1, 2}

LegalEdges_with_reopen ==
    {<<"pending", "confirmed">>, <<"pending", "cancelled">>,
     <<"confirmed", "completed">>, <<"confirmed", "cancelled">>,
     <<"cancelled", "pending">>}

\* pending -> {confirmed, cancelled}, confirmed -> {completed, cancelled}
LegalEdges ==
    {<<"pending", "confirmed">>, <<"pending", "cancelled">>,
     <<"confirmed", "completed">>, <<"confirmed", "cancelled">>}

\* an AppointmentStatusLog row
StatusLogRow(pk, appointment, previous, new, actor) ==
    [pk |-> pk, appointment |-> appointment, previous_status |-> previous,
     new_status |-> new, changed_by |-> actor]

LifecycleResult(resp, rows, logs) == [resp |-> resp, rows |-> rows, logs |-> logs]

\* a transition that commits the status and appends nothing
transition_without_log(instance, target, actor, rows, logs) ==
    IF <<instance.status, target>> \notin LegalEdges
    THEN LifecycleResult(Response(400, {MsgIllegalTransition}), rows, logs)
    ELSE LifecycleResult(Response(200, {MsgSuccess}),
             {a \in rows : a.pk # instance.pk}
                 \cup {[instance EXCEPT !.status = target]},
             logs)

\* the transition of the stored appointment instance to target by actor; the
\* specification fixes the rejection's name, not the codes of the responses
transition(instance, target, actor, rows, logs) ==
    IF <<instance.status, target>> \notin LegalEdges
    THEN LifecycleResult(Response(400, {MsgIllegalTransition}), rows, logs)
    ELSE LifecycleResult(Response(200, {MsgSuccess}),
             {a \in rows : a.pk # instance.pk}
                 \cup {[instance EXCEPT !.status = target]},
             logs \cup {StatusLogRow(new_pk("appointmentstatuslog"), instance.pk, instance.status,
                                     target, actor)})

Transition(c, pk, target, actor) ==
    /\ get(pk, appointments) # None
    /\ LET instance == get(pk, appointments)
           r == transition(instance, target, actor, appointments, statuslogs)
       IN  /\ appointments' = r.rows
           /\ statuslogs' = r.logs
           /\ client' = [client EXCEPT ![c] =
                  [Done("transition", pk, [status |-> target], clock, FALSE, r.resp)
                       EXCEPT !.instance = instance]]
           /\ sequence' = IF r.logs # statuslogs
                          THEN nextval("appointmentstatuslog") ELSE sequence
    /\ UNCHANGED <<clock, timeslots, jobvars, authvars, accountvars>>

\* bodies of appointment updates that name a status
StatusBodies ==
    {[status |-> s] : s \in STATUS_CHOICES}
    \cup {[status |-> "completed", notes |-> "b"]}

\* two pending appointments that no transition has touched, and a slot that
\* holds the first
InitLifecycle ==
    /\ clock = ClockValues[1]
    /\ timeslots = {Slot(1, 1, weekday(Today + 1), 540, 720)}
    /\ appointments = {SeedRow(1, 1, 600, "pending"), SeedRow(2, 2, 600, "pending")}
    /\ client = [c \in Clients |-> Idle]
    /\ statuslogs = {}
    /\ InitRest

NextLifecycle ==
    \/ \E pk \in 1..2, target \in STATUS_CHOICES, actor \in Actors :
          Transition(1, pk, target, actor)
    \/ \E pk \in 1..2, data \in StatusBodies : PartialUpdate(1, pk, data)
    \/ \E pk \in 1..2 : Destroy(1, pk)
    \/ SlotDestroy(1, 1)

SpecLifecycle == InitLifecycle /\ [][NextLifecycle]_vars

---------------------------------------------------------------------------
(* Runs of send_24_hour_reminders, a statement of the loop at a time       *)

\* the run starts: tomorrow is computed and the loop evaluates the queryset
StartReminders(w) ==
    /\ worker[w].pc = "idle"
    /\ worker[w].runs < MaxRuns
    /\ LET queue == Ordered(reminder_due(appointments, clock))
       IN  worker' = [worker EXCEPT ![w] =
               [pc |-> IF queue = <<>> THEN "idle" ELSE "check",
                job |-> "reminders", queue |-> queue, runs |-> worker[w].runs + 1]]
    /\ UNCHANGED <<clock, timeslots, appointments, client, statuslogs,
                   reminders, outbox, reports, authvars, accountvars, sequence>>

\* the test of the loop: continue when a sent reminder of the appointment is
\* stored
CheckReminded(w) ==
    /\ worker[w].pc = "check"
    /\ worker' = [worker EXCEPT ![w] =
           IF already_reminded(Head(worker[w].queue), reminders)
           THEN Advance(worker[w])
           ELSE [worker[w] EXCEPT !.pc = "send"]]
    /\ UNCHANGED <<clock, timeslots, appointments, client, statuslogs,
                   reminders, outbox, reports, authvars, accountvars, sequence>>

\* send_mail(...)
SendMail(w) ==
    /\ worker[w].pc = "send"
    /\ outbox' = [outbox EXCEPT ![Head(worker[w].queue)] = @ + 1]
    /\ worker' = [worker EXCEPT ![w].pc = "create"]
    /\ UNCHANGED <<clock, timeslots, appointments, client, statuslogs,
                   reminders, reports, authvars, accountvars, sequence>>

\* AppointmentReminder.objects.create(...): the IntegrityError of the unique
\* constraint is not caught and ends the run
CreateReminder(w) ==
    /\ worker[w].pc = "create"
    /\ LET row == AppointmentReminderRow(new_pk("appointmentreminder"), Head(worker[w].queue))
       IN  IF AppointmentReminder_save_ok(row, reminders)
           THEN /\ reminders' = reminders \cup {row}
                /\ worker' = [worker EXCEPT ![w] = Advance(worker[w])]
           ELSE /\ reminders' = reminders
                /\ worker' = [worker EXCEPT ![w].pc = "idle", ![w].queue = <<>>]
    /\ sequence' = nextval("appointmentreminder")
    /\ UNCHANGED <<clock, timeslots, appointments, client, statuslogs,
                   outbox, reports, authvars, accountvars>>

\* appointments of the next day and of the day after, at 10:00 and at 13:00
InitReminders ==
    /\ clock = ClockValues[1]
    /\ timeslots = {Slot(1, 1, weekday(Today + 1), 480, 1080)}
    /\ appointments \in
           {{SeedRow(1, 1, 600, s1), SeedRow(2, 1, 780, s2),
             [SeedRow(3, 2, 600, "confirmed") EXCEPT !.appointment_date = Today + 2]} :
                s1 \in {"confirmed", "pending"}, s2 \in {"confirmed", "completed"}}
    /\ client = [c \in Clients |-> Idle]
    /\ statuslogs = {}
    /\ InitRest

NextReminders ==
    \/ \E w \in Workers :
          \/ StartReminders(w)
          \/ CheckReminded(w)
          \/ SendMail(w)
          \/ CreateReminder(w)
    \/ Tick

SpecReminders == InitReminders /\ [][NextReminders]_vars

---------------------------------------------------------------------------
(* Runs of generate_reports_for_last_month: the run reads the date and    *)
(* evaluates the queryset, then writes one report per group, each write a    *)
(* statement of its own                                                      *)

\* today = now().date() and the SELECT of the loop header
StartReports(w) ==
    /\ worker[w].pc = "idle"
    /\ worker[w].runs < MaxRuns
    /\ \E q \in Orders(report_groups(appointments, clock)) :
          worker' = [worker EXCEPT ![w] =
              [pc |-> IF q = <<>> THEN "idle" ELSE "reports", job |-> "reports",
               queue |-> q, runs |-> worker[w].runs + 1]]
    /\ UNCHANGED <<clock, timeslots, appointments, client, statuslogs,
                   reminders, outbox, reports, authvars, accountvars, sequence>>

\* one pass of the loop: update_or_create of the next group
WriteReport(w) ==
    /\ worker[w].pc = "reports"
    /\ LET data == Head(worker[w].queue)
       IN  /\ reports' = update_or_create(data, reports)
           /\ sequence' = IF report_of(data, reports) = {}
                          THEN nextval("monthlyreport") ELSE sequence
    /\ worker' = [worker EXCEPT ![w].queue = Tail(@),
                                ![w].pc = IF Tail(worker[w].queue) = <<>>
                                          THEN "idle" ELSE "reports"]
    /\ UNCHANGED <<clock, timeslots, appointments, client, statuslogs,
                   reminders, outbox, authvars, accountvars>>

\* the instants of the runs: 02:00 of 1970-02-01, 1970-02-15 and 1970-01-01
ReportClocks == {[date |-> 31, time |-> 120], [date |-> 45, time |-> 120],
                 [date |-> 0, time |-> 120]}

\* the dates of the stored appointments, for the instant of the run: the
\* last day of the month before, a day of the month before that, and the day
\* of the run
ReportDates(now) ==
    IF now.date = 0 THEN {-1, -32, 0} ELSE {30, -1, now.date}

ReportRow(pk, doctor, patient, d, t, s, f) ==
    [pk |-> pk, patient |-> patient, doctor |-> doctor, appointment_date |-> d,
     appointment_time |-> t, notes |-> "a", status |-> s, consultation_fee |-> f]

InitReports ==
    /\ clock \in ReportClocks
    /\ timeslots = {}
    /\ appointments \in
           {{ReportRow(1, 1, 1, d1, 600, s1, 50), ReportRow(2, 1, p2, d2, 780, s2, 80),
             ReportRow(3, 2, 1, d3, 600, s3, 50)} :
                d1 \in ReportDates(clock), d2 \in ReportDates(clock),
                d3 \in ReportDates(clock), p2 \in Patients,
                s1 \in {"completed", "confirmed"}, s2 \in {"completed", "confirmed"},
                s3 \in {"completed", "cancelled"}}
    /\ client = [c \in Clients |-> Idle]
    /\ statuslogs = {}
    /\ InitRest

NextReports ==
    \/ StartReports(1)
    \/ WriteReport(1)
    \/ \E pk \in 1..2 : Destroy(1, pk)

SpecReports == InitReports /\ [][NextReports]_vars

---------------------------------------------------------------------------
(* Bookings, appointment updates, slot adds and transitions side by side,  *)
(* one whole handler each: one pending appointment of doctor 1 inside a     *)
(* slot of the doctor                                                       *)

InitRequests ==
    /\ clock = ClockValues[1]
    /\ timeslots = {Slot(1, 1, weekday(Today + 1), 540, 720)}
    /\ appointments = {SeedRow(1, 1, 600, "pending")}
    /\ client = [c \in Clients |-> Idle]
    /\ statuslogs = {}
    /\ InitRest

NextRequests ==
    \/ \E data \in CreateBodies(1) : Create(1, data, clock)
    \/ \E pk \in 1..2, data \in UpdateBodies : PartialUpdate(1, pk, data)
    \/ \E data \in SlotBodies : SlotCreate(1, data)
    \/ \E target \in STATUS_CHOICES : Transition(1, 1, target, 1)

SpecRequests == InitRequests /\ [][NextRequests]_vars

---------------------------------------------------------------------------
(* Bookings after the slot that held a stored appointment was removed: one *)
(* pending appointment of doctor 1 at 10:00 of the next day inside the only *)
(* slot of the doctor                                                       *)

NextOrder ==
    \/ \E data \in CreateBodies(1), later \in Later : Create(1, data, later)
    \/ SlotDestroy(1, 1)
    \/ Tick

SpecOrder == InitRequests /\ [][NextOrder]_vars

---------------------------------------------------------------------------
(* Requests that name a primary key, of stored rows and of rows that are   *)
(* not stored: key 1 is stored in both tables when the handlers start and   *)
(* key 2 in neither                                                         *)

Retrieve(c, pk) ==
    LET r == retrieve(pk, appointments)
    IN  /\ appointments' = r.rows
        /\ client' = [client EXCEPT ![c] =
               [Done("retrieve", pk, Empty, clock, FALSE, r.resp)
                    EXCEPT !.instance = get(pk, appointments)]]
        /\ UNCHANGED <<clock, timeslots, statuslogs, jobvars, authvars, accountvars, sequence>>

SlotRetrieve(c, pk) ==
    LET r == TimeSlot_retrieve(pk, timeslots)
    IN  /\ timeslots' = r.rows
        /\ client' = [client EXCEPT ![c] =
               [Done("slot_retrieve", pk, Empty, clock, FALSE, r.resp)
                    EXCEPT !.instance = get(pk, timeslots)]]
        /\ UNCHANGED <<clock, appointments, statuslogs, jobvars, authvars, accountvars, sequence>>

NextMissing ==
    \E pk \in 1..2 :
        \/ Retrieve(1, pk)
        \/ \E data \in UpdateBodies : PartialUpdate(1, pk, data)
        \/ Destroy(1, pk)
        \/ SlotRetrieve(1, pk)
        \/ \E data \in SlotUpdateBodies : SlotPartialUpdate(1, pk, data)
        \/ SlotDestroy(1, pk)

SpecMissing == InitRequests /\ [][NextMissing]_vars

\* the session of a user, issued at an instant
SessionAccess(u, at) == JWT(u, "access", [date |-> at.date + 1, time |-> at.time])

SessionRefresh(u, at) == JWT(u, "refresh", [date |-> at.date + 7, time |-> at.time])

\* users 1 and 2 logged in at 10:00 of Today, user 3 six days before
IssuedAt(u) == IF u = 3 THEN [date |-> Today - 6, time |-> 600] ELSE ClockValues[1]

SessionUsers == 1..3

SessionToken(u) == TokenRow(u, u, SessionAccess(u, IssuedAt(u)), SessionRefresh(u, IssuedAt(u)))

SessionCache(u) == CacheTokenRow(u, u, u, SessionAccess(u, IssuedAt(u)))

\* the bodies of a registration and of a user update
DoctorFields == [license_number |-> 7, experience_years |-> "3", consultation_fee |-> 50]

UserUpdateBodies ==
    {Empty, [password |-> "p"], DoctorFields, Merge([user_type |-> "DOCTOR"], DoctorFields),
     [user_type |-> "DOCTOR", license_number |-> 7]}
        \cup {[user_type |-> t] : t \in {"PATIENT", "DOCTOR", "NURSE"}}

UserCreateBodies ==
    {Merge([email |-> e, password |-> "Str0ng!pw"], b) :
         e \in {1, 8},
         b \in {[user_type |-> "PATIENT"], Merge([user_type |-> "DOCTOR"], DoctorFields)}}
        \cup {[email |-> 8, user_type |-> "PATIENT"]}

ProfileBodies == {Empty, [is_available |-> FALSE]} \cup {[user |-> u] : u \in {1, 2, 9}}

\* POST user/register/
UserCreate(c, data) ==
    LET r == User_create(data, users)
    IN  /\ new_pk("user") <= MaxUserPk
        /\ users' = r.rows
        /\ client' = [client EXCEPT ![c] = Done("user_create", 0, data, clock, FALSE, r.resp)]
        /\ sequence' = IF r.resp.status = 201 THEN nextval("user") ELSE sequence
        /\ UNCHANGED <<clock, timeslots, appointments, statuslogs, jobvars, authvars,
                       doctorprofiles>>

\* PATCH user/<pk>/partial/update/
UserPartialUpdate(c, pk, data) ==
    LET r == User_partial_update(pk, data, users)
    IN  /\ users' = r.rows
        /\ client' = [client EXCEPT ![c] = Done("user_update", pk, data, clock, FALSE, r.resp)]
        /\ UNCHANGED <<clock, timeslots, appointments, statuslogs, jobvars, authvars,
                       doctorprofiles, sequence>>

\* POST doctor/profile/create/
ProfileCreate(c, data) ==
    LET r == DoctorProfile_create(data, doctorprofiles, users)
    IN  /\ new_pk("doctorprofile") <= MaxProfilePk
        /\ doctorprofiles' = r.rows
        /\ client' = [client EXCEPT ![c] =
               Done("profile_create", 0, data, clock, FALSE, r.resp)]
        /\ sequence' = IF r.resp.status = 201 THEN nextval("doctorprofile") ELSE sequence
        /\ UNCHANGED <<clock, timeslots, appointments, statuslogs, jobvars, authvars,
                       users>>

\* PATCH doctor/profile/<pk>/partial/update/
ProfilePartialUpdate(c, pk, data) ==
    LET r == DoctorProfile_partial_update(pk, data, doctorprofiles, users)
    IN  /\ doctorprofiles' = r.rows
        /\ client' = [client EXCEPT ![c] =
               Done("profile_update", pk, data, clock, FALSE, r.resp)]
        /\ UNCHANGED <<clock, timeslots, appointments, statuslogs, jobvars, authvars,
                       users, sequence>>

\* the rows that go with the deleted rows of a parent table, table by table
Cascaded(usrs, profiles) ==
    LET rows == CASCADE("doctor", profiles, CASCADE("patient", usrs, appointments))
    IN  [timeslots |-> CASCADE("doctor", profiles, timeslots),
         appointments |-> rows,
         statuslogs |-> SET_NULL(usrs, CASCADE("appointment", rows, statuslogs)),
         reminders |-> CASCADE("appointment", rows, reminders),
         reports |-> CASCADE("doctor", profiles, reports),
         tokens |-> CASCADE("user", usrs, tokens),
         cachetokens |-> CASCADE("user", usrs, cachetokens)]

\* DELETE doctor/profile/<pk>/delete/: the slots, appointments and reports of
\* the profile go with the row
ProfileDestroy(c, pk) ==
    LET r == DoctorProfile_destroy(pk, doctorprofiles)
        d == Cascaded(users, r.rows)
    IN  /\ doctorprofiles' = r.rows
        /\ timeslots' = d.timeslots
        /\ appointments' = d.appointments
        /\ statuslogs' = d.statuslogs
        /\ reminders' = d.reminders
        /\ reports' = d.reports
        /\ client' = [client EXCEPT ![c] =
               Done("profile_destroy", pk, Empty, clock, FALSE, r.resp)]
        /\ UNCHANGED <<clock, outbox, worker, authvars, users, sequence>>

\* a patient and a doctor are registered; either no profile is stored, or
\* the profile of the doctor with a slot, an appointment of the patient with
\* its log entry and reminder, a report, and a session of each user
InitAccounts ==
    /\ clock = ClockValues[1]
    /\ client = [c \in Clients |-> Idle]
    /\ outbox = [k \in JobKeys |-> 0]
    /\ worker = [w \in Workers |-> IdleWorker]
    /\ users = {UserRow(1, "PATIENT", TRUE), DoctorRow(2, 50)}
    /\ \/ /\ doctorprofiles = {}
          /\ timeslots = {}
          /\ appointments = {}
          /\ statuslogs = {}
          /\ reminders = {}
          /\ reports = {}
          /\ tokens = {}
          /\ cachetokens = {}
       \/ /\ doctorprofiles = {ProfileRow(1, 2)}
          /\ timeslots = {Slot(1, 1, weekday(Today + 1), 540, 720)}
          /\ appointments = {[SeedRow(1, 1, 600, "confirmed") EXCEPT !.patient = 1]}
          /\ statuslogs = {StatusLogRow(1, 1, "pending", "confirmed", 2)}
          /\ reminders = {AppointmentReminderRow(1, 1)}
          /\ reports = {MonthlyReportRow(1, annotate(1, 1970, 1, {}))}
          /\ tokens = {SessionToken(u) : u \in 1..2}
          /\ cachetokens = {SessionCache(u) : u \in 1..2}
    /\ sequence = LastValues

NextAccounts ==
    \/ \E data \in UserCreateBodies : UserCreate(1, data)
    \/ \E pk \in 1..3, data \in UserUpdateBodies : UserPartialUpdate(1, pk, data)
    \/ \E data \in ProfileBodies : ProfileCreate(1, data)
    \/ \E pk \in 1..2, data \in ProfileBodies : ProfilePartialUpdate(1, pk, data)
    \/ \E pk \in 1..2 : ProfileDestroy(1, pk)

SpecAccounts == InitAccounts /\ [][NextAccounts]_vars

---------------------------------------------------------------------------
(* Sessions: login, logout, token refresh and a request behind               *)
(* jwt_authenticated.  The spec's identity provider is these handlers; the   *)
(* sessions the tables hold at the start are rows the tables admit, at most  *)
(* one session a user: a Token row and the CacheToken row of its access      *)
(* token.  The account of user 2 has been deactivated.  The handlers of two *)
(* clients run side by side: a handler takes one step for each statement    *)
(* that reads the clock or reads or writes a table.                         *)

\* the header values a client sends
Headers ==
    {MissingHeader, Garbage}
        \cup {SessionAccess(u, IssuedAt(u)) : u \in SessionUsers}
        \cup {SessionRefresh(u, IssuedAt(u)) : u \in SessionUsers}

\* the bodies of a login: a registered or unknown address, the password of
\* the account or another, or no password
LoginBodies ==
    {[email |-> e, password |-> p] : e \in {1, 2, 9}, p \in {"p", "x"}}
        \cup {[email |-> 1]}

\* POST user/login/
Login(c, data) ==
    LET r == login(data, tokens, cachetokens, users, clock)
    IN  /\ Ready(c)
        /\ tokens' = r.tokens
        /\ cachetokens' = r.cachetokens
        /\ client' = [client EXCEPT ![c] = Done("login", 0, data, NoClock, FALSE, r.resp)]
        /\ sequence' = IF r.resp.status = 201
                       THEN [sequence EXCEPT !["token"] = @ + 1, !["cachetoken"] = @ + 1]
                       ELSE sequence
        /\ UNCHANGED <<clock, timeslots, appointments, statuslogs, jobvars, accountvars>>

RowsOf(u, S) == {r \in S : r.user = u}

\* the requests that present an access token in the Api-Key header
GatedOps == {"retrieve", "logout", "user_destroy"}

\* the token is one of a user who has no CacheToken row
LoggedOut(token) == token.kind = "jwt" /\ RowsOf(token.user, cachetokens) = {}

\* a request of client c in the handler op, at the statement pc; alone
\* records whether the user of the token had no CacheToken row when the
\* request arrived.  The handlers read the clock statement by statement and
\* keep no instant
Handling(c, op, pc, token, pk) ==
    [Idle EXCEPT !.pc = pc, !.op = op, !.pk = pk,
                 !.data = IF op = "refresh" THEN [refresh_token |-> token]
                          ELSE [api_key |-> token],
                 !.alone = LoggedOut(token)]

\* the request of client c is answered
Answer(c, resp) ==
    client' = [client EXCEPT ![c] =
        Done(client[c].op, client[c].pk, client[c].data, client[c].now,
             client[c].alone, resp)]

\* a request behind jwt_authenticated arrives (POST user/logout/, GET
\* appointment/<pk>/, DELETE user/<pk>/delete/): the header and the decode
\* of is_access_token_expired
BeginGated(c, op, token, pk) ==
    /\ Ready(c)
    /\ LET msg == authenticate("expired", token, cachetokens, users, clock)
       IN  client' = [client EXCEPT ![c] =
               IF msg # ""
               THEN Done(op, pk, [api_key |-> token], NoClock, LoggedOut(token),
                         Response(401, {msg}))
               ELSE Handling(c, op, StageAfter("expired"), token, pk)]
    /\ UNCHANGED <<clock, timeslots, appointments, statuslogs, jobvars, authvars,
                   accountvars, sequence>>

Logout(c, token) == BeginGated(c, "logout", token, 0)

AuthRetrieve(c, token, pk) == BeginGated(c, "retrieve", token, pk)

UserDestroy(c, token, pk) == BeginGated(c, "user_destroy", token, pk)

\* the next statement of authenticate; after the last, the test of
\* user.is_active of jwt_authenticated on the user authenticate fetched
Authenticate(c) ==
    /\ client[c].op \in GatedOps
    /\ client[c].pc \in {AuthStages[i] : i \in 2..Len(AuthStages)}
    /\ LET token == client[c].data.api_key
           stage == client[c].pc
           msg == authenticate(stage, token, cachetokens, users, clock)
           user == IF stage = "user" THEN get(token.user, users) ELSE client[c].instance
       IN  IF msg # "" THEN Answer(c, Response(401, {msg}))
           ELSE IF StageAfter(stage) = "view" /\ jwt_authenticated(user).status # 0
           THEN Answer(c, jwt_authenticated(user))
           ELSE client' = [client EXCEPT ![c].pc = StageAfter(stage),
                                         ![c].instance = user]
    /\ UNCHANGED <<clock, timeslots, appointments, statuslogs, jobvars, authvars,
                   accountvars, sequence>>

\* logout: Token.objects.get(access_token=token)
LogoutGet(c) ==
    /\ client[c].pc = "view" /\ client[c].op = "logout"
    /\ LET token == client[c].data.api_key
       IN  IF logout(token, tokens).status # 0 THEN Answer(c, logout(token, tokens))
           ELSE client' = [client EXCEPT ![c].pc = "delete_cache",
                               ![c].instance =
                                   CHOOSE t \in tokens : t.access_token = token]
    /\ UNCHANGED <<clock, timeslots, appointments, statuslogs, jobvars, authvars,
                   accountvars, sequence>>

\* delete_token of logout: cache_token.delete()
LogoutDeleteCache(c) ==
    /\ client[c].pc = "delete_cache"
    /\ cachetokens' = delete_token(client[c].instance.user, tokens, cachetokens).cachetokens
    /\ client' = [client EXCEPT ![c].pc = "delete_token"]
    /\ UNCHANGED <<clock, timeslots, appointments, statuslogs, jobvars, tokens,
                   accountvars, sequence>>

\* delete_token of logout: token.delete(), and the response
LogoutDeleteToken(c) ==
    /\ client[c].pc = "delete_token"
    /\ tokens' = delete_token(client[c].instance.user, tokens, cachetokens).tokens
    /\ Answer(c, Response(200, {MsgLogout}))
    /\ UNCHANGED <<clock, timeslots, appointments, statuslogs, jobvars, cachetokens,
                   accountvars, sequence>>

\* the view of GET appointment/<pk>/
RetrieveView(c) ==
    /\ client[c].pc = "view" /\ client[c].op = "retrieve"
    /\ LET r == retrieve(client[c].pk, appointments)
       IN  /\ appointments' = r.rows
           /\ Answer(c, r.resp)
    /\ UNCHANGED <<clock, timeslots, statuslogs, jobvars, authvars, accountvars, sequence>>

\* the view of DELETE user/<pk>/delete/, for a request jwt_authenticated has
\* let through: user_service.get_by_id(pk)
UserDestroyView(c) ==
    /\ client[c].pc = "view" /\ client[c].op = "user_destroy"
    /\ IF get(client[c].pk, users) = None
       THEN Answer(c, User_destroy(client[c].pk, users).resp)
       ELSE client' = [client EXCEPT ![c].pc = "delete_user"]
    /\ UNCHANGED <<clock, timeslots, appointments, statuslogs, jobvars, authvars,
                   accountvars, sequence>>

\* user_service.delete(user): the profile of the user, the appointments of
\* the patient or of the profile, their log entries and reminders, the slots
\* and reports of the profile and the sessions of the user go with the row
UserDestroyDelete(c) ==
    LET rows == {u \in users : u.pk # client[c].pk}
        profiles == CASCADE("user", rows, doctorprofiles)
        d == Cascaded(rows, profiles)
    IN  /\ client[c].pc = "delete_user"
        /\ users' = rows
        /\ doctorprofiles' = profiles
        /\ timeslots' = d.timeslots
        /\ appointments' = d.appointments
        /\ statuslogs' = d.statuslogs
        /\ reminders' = d.reminders
        /\ reports' = d.reports
        /\ tokens' = d.tokens
        /\ cachetokens' = d.cachetokens
        /\ Answer(c, Response(204, {MsgDeleted}))
        /\ UNCHANGED <<clock, outbox, worker, sequence>>

\* the instants the clock shows beside the sessions, in order: 10:00 of
\* Today, 10:00 of the next day, the instant the access tokens issued at the
\* start and the refresh token of user 3 expire, and 13:00 of that day
SessionClockValues == <<ClockValues[1],
                        [date |-> Today + 1, time |-> 600],
                        ClockValues[2]>>

\* datetime.now() moves forward
SessionTick ==
    /\ clock # SessionClockValues[Len(SessionClockValues)]
    /\ clock' = SessionClockValues[
                    (CHOOSE i \in 1..Len(SessionClockValues) :
                         SessionClockValues[i] = clock) + 1]
    /\ UNCHANGED <<timeslots, appointments, client, statuslogs, jobvars, authvars,
                   accountvars, sequence>>

\* the statement of the stage of AccessTokenFromRefreshToken.create for
\* client c, whose request is in rec
RefreshStep(c, rec, stage) ==
    LET token == rec.data.refresh_token
        r == refresh_token_create(stage, token, tokens, cachetokens, users, clock)
    IN  /\ tokens' = r.tokens
        /\ cachetokens' = r.cachetokens
        /\ sequence' = IF r.resp.status = 201
                       THEN [sequence EXCEPT !["token"] = @ + 1, !["cachetoken"] = @ + 1]
                       ELSE sequence
        /\ client' = [client EXCEPT ![c] =
               IF r.resp.status # 0
               THEN Done("refresh", 0, rec.data, rec.now, rec.alone, r.resp)
               ELSE [rec EXCEPT !.pc =
                        RefreshStages[(CHOOSE i \in 1..Len(RefreshStages) :
                                          RefreshStages[i] = stage) + 1]]]
        /\ UNCHANGED <<clock, timeslots, appointments, statuslogs, jobvars, accountvars>>

\* POST refresh/token/ arrives: the first statement
RefreshToken(c, token) ==
    /\ Ready(c)
    /\ RefreshStep(c, Handling(c, "refresh", "decode", token, 0), "decode")

\* the next statement of POST refresh/token/
Refresh(c) ==
    /\ client[c].op = "refresh"
    /\ client[c].pc \in {RefreshStages[i] : i \in 2..Len(RefreshStages)}
    /\ RefreshStep(c, client[c], client[c].pc)

InitSessions ==
    /\ clock = ClockValues[1]
    /\ timeslots = {Slot(1, 1, weekday(Today + 1), 540, 720)}
    /\ appointments = {[SeedRow(1, 1, 600, "pending") EXCEPT !.patient = 1]}
    /\ client = [c \in Clients |-> Idle]
    /\ statuslogs = {}
    /\ reminders = {}
    /\ outbox = [k \in JobKeys |-> 0]
    /\ reports = {}
    /\ worker = [w \in Workers |-> IdleWorker]
    /\ \E S \in SUBSET SessionUsers :
           /\ tokens = {SessionToken(u) : u \in S}
           /\ cachetokens = {SessionCache(u) : u \in S}
    /\ users = {UserRow(u, "PATIENT", u # 2) : u \in 1..3}
                   \cup {DoctorRow(u, 50) : u \in 4..5}
    /\ doctorprofiles = {ProfileRow(d, d + 3) : d \in Doctors}
    /\ sequence = LastValues

\* client 1 sends the session requests, client 2 the requests behind
\* jwt_authenticated; the statements of the two handlers interleave
NextSessions ==
    \/ \E data \in LoginBodies : Login(1, data)
    \/ \E token \in Headers : Logout(1, token)
    \/ \E token \in Headers : RefreshToken(1, token)
    \/ \E token \in Headers : AuthRetrieve(2, token, 1)
    \/ \E token \in Headers : UserDestroy(2, token, 1)
    \/ \E c \in Clients :
          \/ Authenticate(c)
          \/ LogoutGet(c)
          \/ LogoutDeleteCache(c)
          \/ LogoutDeleteToken(c)
          \/ RetrieveView(c)
          \/ UserDestroyView(c)
          \/ UserDestroyDelete(c)
          \/ Refresh(c)
    \/ SessionTick

SpecSessions == InitSessions /\ [][NextSessions]_vars

---------------------------------------------------------------------------
(* Properties of booking *)

IsBooking(r) == r.pc = "done" /\ r.op = "create"

SameKey(a, data) ==
    /\ a.doctor = data["doctor"]
    /\ a.appointment_date = data["appointment_date"]
    /\ a.appointment_time = data["appointment_time"]

\* C3: a booking request that passes the date, business-hours, future and
\* availability checks is accepted when every appointment with its doctor,
\* date and time is cancelled or completed.
C3_TerminalDoesNotBlock ==
    \A c \in Clients :
        (/\ IsBooking(client[c])
         /\ client[c].alone
         /\ \E a \in appointments :
               SameKey(a, client[c].data) /\ a.status \in {"cancelled", "completed"})
        => client[c].resp.status = 201

\* C4: given that the date and time checks pass, a booking request is rejected
\* with DoctorUnavailable exactly when no slot of the doctor on the weekday of
\* the date has start_time <= appointment_time < end_time, and a request the
\* contract admits is accepted in status pending.
C4_AvailabilityDecides ==
    \A c \in Clients :
        LET r == client[c]
            available ==
                \E s \in timeslots :
                    /\ s.doctor = r.data["doctor"]
                    /\ s.weekday = weekday(r.data["appointment_date"])
                    /\ s.start_time <= r.data["appointment_time"]
                    /\ r.data["appointment_time"] < s.end_time
        IN  (/\ IsBooking(r)
             /\ r.data["appointment_date"] >= r.now.date
             /\ r.data["appointment_time"] >= 540
             /\ r.data["appointment_time"] <= 1020
             /\ ~NotAfter(r.data["appointment_date"], r.data["appointment_time"], r.now))
            => /\ (MsgUnavailable \in r.resp.message) <=> ~available
               /\ r.alone =>
                    /\ r.resp.status = 201
                    /\ \E a \in appointments : SameKey(a, r.data) /\ a.status = "pending"

\* C5: the integer a slot stores for a day of the week is the integer booking
\* derives from a date that falls on that day, and the seven integers denote
\* seven distinct days.
C5_WeekdayNumbering ==
    \A s \in timeslots :
        /\ \A d \in Today..(Today + 6) :
              (WEEKDAY_CHOICES[s.weekday] = DayNameOf(d)) <=> (s.weekday = weekday(d))
        /\ \A i \in 0..6 :
              WEEKDAY_CHOICES[i] = WEEKDAY_CHOICES[s.weekday] => i = s.weekday

\* C6: a booking request at a time before 09:00 or after 17:00 is rejected with
\* OutsideBusinessHours whatever the slots are, and a request at a time from
\* 09:00 to 17:00, both included, is not rejected by this check.
C6_OutsideBusinessHours ==
    \A c \in Clients :
        LET r == client[c] IN
        IsBooking(r) =>
            IF r.data["appointment_time"] < 540 \/ r.data["appointment_time"] > 1020
            THEN r.resp.status = 422 /\ MsgBusinessHours \in r.resp.message
            ELSE MsgBusinessHours \notin r.resp.message

\* a request at 08:00 that a slot of the doctor on that weekday covers was
\* rejected with OutsideBusinessHours
C6_Witness ==
    \E c \in Clients :
        /\ IsBooking(client[c])
        /\ client[c].data["appointment_time"] = 480
        /\ \E s \in timeslots :
              /\ s.doctor = client[c].data["doctor"]
              /\ s.weekday = weekday(client[c].data["appointment_date"])
              /\ s.start_time <= 480 /\ s.end_time > 480
        /\ MsgBusinessHours \in client[c].resp.message

\* C7: a booking request dated before the current date is rejected with
\* PastDate, and the response is decided by the field checks alone: it is the
\* same whatever slots and appointments are stored.
C7_PastDate ==
    \A c \in Clients :
        LET r == client[c] IN
        (IsBooking(r) /\ r.data["appointment_date"] < r.now.date)
        => r.resp = Response(422,
                {MsgPastDate} \cup
                (IF r.data["appointment_time"] < 540 \/ r.data["appointment_time"] > 1020
                 THEN {MsgBusinessHours} ELSE {}))

\* a request dated before the current date, for the doctor, date and time of
\* a pending or confirmed appointment and inside a slot, was rejected with
\* PastDate
C7_Witness ==
    \E c \in Clients :
        /\ IsBooking(client[c])
        /\ client[c].data["appointment_date"] < client[c].now.date
        /\ \E a \in appointments :
              SameKey(a, client[c].data) /\ a.status \in {"pending", "confirmed"}
        /\ \E s \in timeslots :
              /\ s.doctor = client[c].data["doctor"]
              /\ s.weekday = weekday(client[c].data["appointment_date"])
              /\ s.start_time <= client[c].data["appointment_time"]
              /\ s.end_time > client[c].data["appointment_time"]
        /\ client[c].resp.message = {MsgPastDate}

\* C8: a booking request that passes the date and business-hours checks and
\* whose date and time are equal to or earlier than the current instant is
\* rejected with PastDateTime.
C8_PastDateTime ==
    \A c \in Clients :
        LET r == client[c] IN
        (/\ IsBooking(r)
         /\ r.data["appointment_date"] >= r.now.date
         /\ r.data["appointment_time"] >= 540
         /\ r.data["appointment_time"] <= 1020
         /\ NotAfter(r.data["appointment_date"], r.data["appointment_time"], r.now))
        => r.resp.status = 422 /\ MsgPastDateTime \in r.resp.message

\* C9: a booking the contract admits creates an appointment in status pending
\* whose consultation_fee is the doctor's fee at that moment, whatever status
\* or fee the body carries, and a change of a doctor's fee changes no
\* appointment.
C9_PendingWithFeeSnapshot ==
    [][/\ \A c \in Clients :
             (/\ client'[c] # client[c]
              /\ IsBooking(client'[c])
              /\ client'[c].alone)
             => \E a \in appointments' \ appointments :
                   /\ SameKey(a, client'[c].data)
                   /\ a.status = "pending"
                   /\ a.consultation_fee = fee[a.doctor]
       /\ fee' # fee => appointments' = appointments]_vars

---------------------------------------------------------------------------
(* Properties of updates and of concurrent requests *)

Active(a) == a.status \in {"pending", "confirmed"}

\* C1: no two distinct appointments whose status is pending or confirmed have
\* the same doctor, appointment_date and appointment_time.
C1_ActiveKeyUnique ==
    \A a, b \in appointments :
        (a.pk # b.pk /\ Active(a) /\ Active(b))
        => ~(/\ a.doctor = b.doctor
             /\ a.appointment_date = b.appointment_date
             /\ a.appointment_time = b.appointment_time)

\* a booking for the doctor, date and time of an active appointment and an
\* update that moves another active appointment onto them have both been
\* answered
C1_Witness ==
    \E a, b \in appointments :
        /\ a.pk # b.pk /\ Active(a) /\ Active(b)
        /\ client[1].pc = "done" /\ client[1].op = "create"
        /\ SameKey(a, client[1].data)
        /\ client[2].pc = "done" /\ client[2].op = "partial_update"
        /\ client[2].pk = b.pk
        /\ UniqueFields \subseteq DOMAIN client[2].data
        /\ SameKey(a, client[2].data)

\* C2: of two booking requests for the same doctor, date and time that are
\* handled concurrently and that the contract admitted when they arrived,
\* exactly one creates an appointment and the other is answered with
\* SlotAlreadyBooked.
C2_ExactlyOneWins ==
    (/\ IsBooking(client[1]) /\ IsBooking(client[2])
     /\ client[1].overlap /\ client[2].overlap
     /\ client[1].alone /\ client[2].alone
     /\ \A f \in UniqueFields : client[1].data[f] = client[2].data[f])
    => \E c, l \in Clients :
          /\ c # l
          /\ client[c].resp.status = 201
          /\ client[l].resp = Response(422, {MsgBooked})
          /\ Cardinality({a \in appointments : SameKey(a, client[c].data)}) = 1

\* C10: an update request that changes the appointment_time (alone or with
\* other fields, to valid or invalid values) of a completed or cancelled
\* appointment is rejected with ImmutableTerminalState, and the appointment is
\* unchanged.
C10_ImmutableTerminalState ==
    \A c \in Clients :
        LET r == client[c] IN
        (/\ r.pc = "done" /\ r.op = "partial_update"
         /\ r.instance # None
         /\ r.instance.status \in {"completed", "cancelled"}
         /\ "appointment_time" \in DOMAIN r.data)
        => /\ r.resp.message = {MsgTerminal}
           /\ r.instance \in appointments

---------------------------------------------------------------------------
(* Properties of updates of pending and confirmed appointments *)

IsUpdate(r) == r.pc = "done" /\ r.op = "partial_update" /\ r.instance # None

\* the value of field f after the update the request asks for
NewValue(r, f) == IF f \in DOMAIN r.data THEN r.data[f] ELSE r.instance[f]

\* C11: an update request on a pending or confirmed appointment that names a
\* doctor other than the appointment's doctor is rejected with
\* DoctorReassignmentForbidden and the appointment is unchanged.
C11_DoctorReassignmentForbidden ==
    \A c \in Clients :
        LET r == client[c] IN
        (/\ IsUpdate(r) /\ Active(r.instance)
         /\ "doctor" \in DOMAIN r.data
         /\ r.data["doctor"] # r.instance.doctor)
        => /\ r.resp.message = {MsgDoctorChange}
           /\ r.instance \in appointments

\* C12: an update of a pending or confirmed appointment that keeps its
\* doctor, date and time is not rejected with SlotAlreadyBooked, and one that
\* moves it onto the doctor, date and time of another pending or confirmed
\* appointment is rejected with SlotAlreadyBooked.
C12_UpdateRevalidates ==
    \A c \in Clients :
        LET r == client[c] IN
        (/\ IsUpdate(r) /\ Active(r.instance)
         /\ NewValue(r, "doctor") = r.instance.doctor)
        => /\ (\A f \in UniqueFields : NewValue(r, f) = r.instance[f])
                  => r.resp.message # {MsgBooked}
           /\ (\E o \in appointments :
                  /\ o.pk # r.instance.pk /\ Active(o)
                  /\ \A f \in UniqueFields : NewValue(r, f) = o[f])
                  => r.resp.message = {MsgBooked}

---------------------------------------------------------------------------
(* Properties of the time slots *)

IsSlotCreate(r) == r.pc = "done" /\ r.op = "slot_create"

\* the appointment a falls inside the slot s
Inside(a, s) ==
    /\ a.doctor = s.doctor
    /\ weekday(a.appointment_date) = s.weekday
    /\ s.start_time <= a.appointment_time
    /\ a.appointment_time < s.end_time

\* C13: a request to add a slot with start_time < end_time is rejected with
\* OverlapConflict exactly when a stored slot of the same doctor and weekday
\* overlaps it, and is accepted otherwise.
C13_OverlapConflict ==
    \A c \in Clients :
        LET r == client[c] IN
        (IsSlotCreate(r) /\ r.data["start_time"] < r.data["end_time"])
        => /\ (r.resp.message = {MsgOverlap}) <=> ~r.alone
           /\ r.alone => r.resp.status = 201

\* C15: a request to add a slot whose start_time is equal to or later than
\* its end_time is rejected with InvalidRange and no such slot is stored.
C15_InvalidRange ==
    \A c \in Clients :
        LET r == client[c] IN
        (IsSlotCreate(r) /\ r.data["start_time"] >= r.data["end_time"])
        => /\ r.resp = Response(422, {MsgInvalidRange})
           /\ ~\E s \in timeslots : \A f \in SlotFields : s[f] = r.data[f]

\* a slot with start_time equal to end_time, inside the range of a stored
\* slot of the same doctor and weekday, was rejected with InvalidRange
C15_Witness ==
    \E c \in Clients :
        /\ IsSlotCreate(client[c])
        /\ client[c].data["start_time"] = client[c].data["end_time"]
        /\ \E s \in timeslots :
              /\ s.doctor = client[c].data["doctor"]
              /\ s.weekday = client[c].data["weekday"]
              /\ s.start_time < client[c].data["end_time"]
              /\ s.end_time > client[c].data["start_time"]
        /\ client[c].resp.message = {MsgInvalidRange}

\* C16: the removal of a stored slot succeeds, removes the slot and leaves
\* every appointment as it was.
C16_RemoveSlotKeepsAppointments ==
    [][\A c \in Clients :
          (/\ client'[c] # client[c]
           /\ client'[c].op = "slot_destroy"
           /\ client'[c].instance # None)
          => /\ client'[c].resp = Response(204, {MsgDeleted})
             /\ client'[c].instance \notin timeslots'
             /\ appointments' = appointments]_vars

\* a slot that holds a stored appointment was removed and the appointment is
\* still stored
C16_Witness ==
    \E c \in Clients :
        /\ client[c].pc = "done" /\ client[c].op = "slot_destroy"
        /\ client[c].instance # None
        /\ client[c].resp.status = 204
        /\ client[c].instance \notin timeslots
        /\ \E a \in appointments : Inside(a, client[c].instance)

\* C14: every stored slot has start_time < end_time, and no two stored slots
\* of the same doctor and weekday have overlapping ranges [start_time,
\* end_time).
C14_SlotsDisjoint ==
    /\ \A s \in timeslots : s.start_time < s.end_time
    /\ \A s, t \in timeslots :
          (s.pk # t.pk /\ s.doctor = t.doctor /\ s.weekday = t.weekday)
          => ~(s.start_time < t.end_time /\ s.end_time > t.start_time)

---------------------------------------------------------------------------
(* Properties of the lifecycle and of the status log *)

IsTransition(r) == r.pc = "done" /\ r.op = "transition"

\* the log entries of the appointment of key pk
EntriesOf(pk, logs) == {l \in logs : l.appointment = pk}

\* C17: the status of an appointment changes only along pending->confirmed,
\* pending->cancelled, confirmed->completed and confirmed->cancelled, and a
\* transition request for any other pair is rejected with IllegalTransition
\* and leaves the appointment as it was.
C17_LegalTransitionsOnly ==
    [][/\ \A a \in appointments, b \in appointments' :
             (a.pk = b.pk /\ a.status # b.status)
             => \/ (a.status = "pending" /\ b.status \in {"confirmed", "cancelled"})
                \/ (a.status = "confirmed" /\ b.status \in {"completed", "cancelled"})
       /\ \A c \in Clients :
             LET r == client'[c] IN
             (/\ r # client[c] /\ IsTransition(r)
              /\ ~(\/ (r.instance.status = "pending"
                       /\ r.data["status"] \in {"confirmed", "cancelled"})
                   \/ (r.instance.status = "confirmed"
                       /\ r.data["status"] \in {"completed", "cancelled"})))
             => /\ r.resp.message = {MsgIllegalTransition}
                /\ appointments' = appointments]_vars

\* a completed appointment was asked to go back to pending and the request
\* was rejected
C17_Witness ==
    \E c \in Clients :
        /\ IsTransition(client[c])
        /\ client[c].instance.status = "completed"
        /\ client[c].data["status"] = "pending"
        /\ client[c].resp.message = {MsgIllegalTransition}
        /\ client[c].instance \in appointments

\* C18: a committed transition appends exactly one log entry, with the
\* status before it and the status after it, a rejected one appends none,
\* and the newest entry of an appointment names its current status.
C18_OneLogEntryPerTransition ==
    /\ [](\A a \in appointments :
            LET es == EntriesOf(a.pk, statuslogs) IN
            es # {} => \E l \in es : /\ \A m \in es : m.pk <= l.pk
                                     /\ l.new_status = a.status)
    /\ [][\A a \in appointments, b \in appointments' :
            a.pk = b.pk =>
              LET added == EntriesOf(a.pk, statuslogs') \ EntriesOf(a.pk, statuslogs) IN
              /\ EntriesOf(a.pk, statuslogs) \subseteq EntriesOf(a.pk, statuslogs')
              /\ IF a.status = b.status THEN added = {}
                 ELSE /\ Cardinality(added) = 1
                      /\ \A l \in added : /\ l.previous_status = a.status
                                          /\ l.new_status = b.status]_vars

\* an appointment went from pending to confirmed to completed, its log holds
\* the two entries, and a further transition request was rejected
C18_Witness ==
    \E a \in appointments :
        /\ a.status = "completed"
        /\ Cardinality(EntriesOf(a.pk, statuslogs)) = 2
        /\ \E c \in Clients :
              /\ IsTransition(client[c]) /\ client[c].pk = a.pk
              /\ client[c].resp.message = {MsgIllegalTransition}

\* C19: no step modifies or removes a log entry that has been written.
C19_LogAppendOnly == [][statuslogs \subseteq statuslogs']_vars

\* C20: an appointment update request leaves the status of every appointment
\* as it was, whatever status its body names.
C20_UpdateKeepsStatus ==
    [][\A c \in Clients :
          (client'[c] # client[c] /\ client'[c].op = "partial_update")
          => \A a \in appointments :
                \E b \in appointments' : b.pk = a.pk /\ b.status = a.status]_vars

\* an update whose body names a status other than the appointment's was
\* answered, for a pending or confirmed appointment
C20_Witness ==
    \E c \in Clients :
        /\ IsUpdate(client[c]) /\ Active(client[c].instance)
        /\ "status" \in DOMAIN client[c].data
        /\ client[c].data["status"] # client[c].instance.status
        /\ \E a \in appointments :
              a.pk = client[c].pk /\ a.status = client[c].instance.status

---------------------------------------------------------------------------
(* Properties of rejections and of validation *)

\* the client's request was answered with a rejection: any response that is
\* not a success
Rejected(r) == r.pc = "done" /\ r.resp.status \notin {200, 201, 204}

WriteOps == {"create", "partial_update", "slot_create", "transition"}

\* C21: a booking, appointment update, slot add or transition that is answered
\* with a rejection leaves the stored slots, appointments and status log
\* exactly as they were before the request.
C21_RejectionsArePure ==
    [][\A c \in Clients :
          (/\ client'[c] # client[c]
           /\ client'[c].op \in WriteOps
           /\ Rejected(client'[c]))
          => (/\ timeslots' = timeslots
              /\ appointments' = appointments
              /\ statuslogs' = statuslogs)]_vars

\* a slot add was rejected for an overlap while a slot, an appointment that a
\* transition has confirmed and its log entry are stored
C21_Witness ==
    /\ client[1].op = "slot_create"
    /\ Rejected(client[1])
    /\ MsgOverlap \in client[1].resp.message
    /\ timeslots # {}
    /\ \E a \in appointments : a.status = "confirmed"
    /\ statuslogs # {}

\* the reasons of the steps of the booking contract that a request violates,
\* by the number of the step
ViolatedSteps(data, rows, slots, now) ==
    {i \in 1..5 :
        CASE i = 1 -> data["appointment_date"] < now.date
          [] i = 2 -> data["appointment_time"] < 540 \/ data["appointment_time"] > 1020
          [] i = 3 -> NotAfter(data["appointment_date"], data["appointment_time"], now)
          [] i = 4 -> ~\E s \in slots :
                          /\ s.doctor = data["doctor"]
                          /\ s.weekday = weekday(data["appointment_date"])
                          /\ s.start_time <= data["appointment_time"]
                          /\ data["appointment_time"] < s.end_time
          [] i = 5 -> \E a \in rows : SameKey(a, data) /\ Active(a)}

StepReason == <<MsgPastDate, MsgBusinessHours, MsgPastDateTime, MsgUnavailable, MsgBooked>>

FirstStep(S) == CHOOSE i \in S : \A j \in S : i <= j

\* C25: a booking request that violates more than one step of the contract is
\* answered with the reason of the first step it violates, in the order
\* PastDate, OutsideBusinessHours, PastDateTime, DoctorUnavailable,
\* SlotAlreadyBooked; a request at a time outside every slot of the doctor
\* where an active appointment is stored is answered DoctorUnavailable.
C25_FirstViolatedStep ==
    [][\A c \in Clients :
          LET S == ViolatedSteps(client'[c].data, appointments, timeslots, clock)
          IN  (/\ client'[c] # client[c]
               /\ IsBooking(client'[c])
               /\ Cardinality(S) >= 2)
              => StepReason[FirstStep(S)] \in client'[c].resp.message]_vars

---------------------------------------------------------------------------
(* Properties of requests for rows that are not stored *)

KeyOps == {"retrieve", "partial_update", "destroy",
           "slot_retrieve", "slot_partial_update", "slot_destroy"}

\* the primary keys of the table the handler of op reads
StoredKeys(op, rows, slots) ==
    IF op \in {"retrieve", "partial_update", "destroy"}
    THEN {a.pk : a \in rows} ELSE {t.pk : t \in slots}

\* C30: a retrieve, partial update or delete of an appointment or of a time
\* slot whose primary key is not stored is answered 404 with the message
\* "No data found!" and changes no stored data.
C30_NotFound ==
    [][\A c \in Clients :
          (/\ client'[c] # client[c]
           /\ client'[c].pc = "done"
           /\ client'[c].op \in KeyOps
           /\ client'[c].pk \notin StoredKeys(client'[c].op, appointments, timeslots))
          => (/\ client'[c].resp = Response(404, {MsgNoDataFound})
              /\ timeslots' = timeslots
              /\ appointments' = appointments
              /\ statuslogs' = statuslogs)]_vars

---------------------------------------------------------------------------
(* Properties of the periodic jobs *)

\* C23: over any runs of the reminder job, one after the other or at the
\* same time, an appointment gets at most one mail and at most one
\* AppointmentReminder row of type 24_hours, and a run that finds the
\* appointment reminded sends nothing for it.
C23_AtMostOneReminder ==
    /\ [](\A k \in JobKeys :
            /\ outbox[k] <= 1
            /\ Cardinality({r \in reminders :
                   r.appointment = k /\ r.reminder_type = "24_hours"}) <= 1)
    /\ [][\A w \in Workers :
            (/\ worker[w].pc = "check"
             /\ worker'[w] # worker[w]
             /\ already_reminded(Head(worker[w].queue), reminders))
            => outbox' = outbox]_vars

\* the reports of a doctor for a year and month
ReportsOf(d, year, month, reps) ==
    {r \in reps : r.doctor = d /\ r.year = year /\ r.month = month}

\* the completed appointments of a doctor dated in the calendar month before
\* the month of the day today
CompletedLastMonth(d, today, rows) ==
    {a \in rows :
        /\ a.doctor = d
        /\ a.status = "completed"
        /\ IF date_month(today) = 1
           THEN date_year(a.appointment_date) = date_year(today) - 1
                /\ date_month(a.appointment_date) = 12
           ELSE date_year(a.appointment_date) = date_year(today)
                /\ date_month(a.appointment_date) = date_month(today) - 1}

\* C24: a run of the monthly report job finds, for every doctor with a
\* completed appointment dated in the calendar month before (December of the
\* year before for a run in January), the count, the number of distinct
\* patients and the sum of the fees of those appointments, and finds no other
\* doctor; each write of the run leaves exactly one MonthlyReport for the
\* doctor, year and month with those numbers and touches no other report, so
\* a further run adds no second report; the run ends when every group is
\* written, and no step of the job changes an appointment.
C24_MonthlyReport ==
    [][\A w \in Workers :
          (worker'[w] # worker[w] /\ worker'[w].job = "reports")
          => LET y == IF date_month(clock.date) = 1 THEN date_year(clock.date) - 1
                      ELSE date_year(clock.date)
                 m == IF date_month(clock.date) = 1 THEN 12
                      ELSE date_month(clock.date) - 1
                 q == worker'[w].queue
             IN  /\ appointments' = appointments
                 /\ worker[w].pc = "idle" =>
                       /\ reports' = reports
                       /\ \A i, j \in 1..Len(q) : q[i].doctor = q[j].doctor => i = j
                       /\ \A d \in Doctors :
                             LET S == CompletedLastMonth(d, clock.date, appointments)
                             IN  IF S = {} THEN \A i \in 1..Len(q) : q[i].doctor # d
                                 ELSE \E i \in 1..Len(q) :
                                        /\ q[i].doctor = d /\ q[i].year = y /\ q[i].month = m
                                        /\ q[i].total_appointments = Cardinality(S)
                                        /\ q[i].total_patients
                                             = Cardinality({a.patient : a \in S})
                                        /\ q[i].total_earnings = total_earnings(S)
                 /\ worker[w].pc = "reports" =>
                       LET g == Head(worker[w].queue)
                       IN  /\ q = Tail(worker[w].queue)
                           /\ worker'[w].pc = "idle" <=> q = <<>>
                           /\ \E r \in reports' :
                                 /\ ReportsOf(g.doctor, g.year, g.month, reports') = {r}
                                 /\ r.total_appointments = g.total_appointments
                                 /\ r.total_patients = g.total_patients
                                 /\ r.total_earnings = g.total_earnings
                           /\ \A r \in reports' :
                                 (r.doctor # g.doctor \/ r.year # g.year \/ r.month # g.month)
                                 => r \in reports
                           /\ \A r \in reports :
                                 (r.doctor # g.doctor \/ r.year # g.year \/ r.month # g.month)
                                 => r \in reports'
                           /\ Cardinality(reports') <= Cardinality(reports) + 1]_vars

\* a second run in January has ended and has left one report for December
\* 1969 of doctor 1, who saw one patient twice
C24_Witness ==
    /\ worker[1].job = "reports"
    /\ worker[1].runs = 2
    /\ worker[1].pc = "idle"
    /\ clock.date = 0
    /\ Cardinality(reports) = 2
    /\ \E r \in reports :
          /\ r.doctor = 1 /\ r.year = 1969 /\ r.month = 12
          /\ r.total_appointments = 2 /\ r.total_patients = 1
          /\ r.total_earnings = 130

---------------------------------------------------------------------------
(* Properties of sessions *)

\* client c was answered in this step
Answered(c) == client'[c] # client[c] /\ client'[c].pc = "done"

\* a step of the handler of client c
Step(c) == client'[c] # client[c]

\* C26: a logout answered 200 leaves no Token and no CacheToken row of the
\* user of the presented token, and no statement of a logout removes a row
\* of another user or adds a row; a request that presents an access token
\* of a user who had no CacheToken row when it arrived gets no further than
\* the comparison with the cached token, is answered 401 and writes
\* nothing; and only a login or a token refresh answered 201 adds a row of
\* a user
C26_LogoutEndsSession ==
    [][/\ \A c \in Clients :
              (Answered(c) /\ client'[c].op = "logout" /\ client'[c].resp.status = 200)
                  => LET u == client'[c].data.api_key.user
                     IN  /\ RowsOf(u, tokens') = {}
                         /\ RowsOf(u, cachetokens') = {}
       /\ \A c \in Clients :
              (Step(c) /\ client'[c].op = "logout" /\ client'[c].data.api_key.kind = "jwt")
                  => LET u == client'[c].data.api_key.user
                     IN  /\ tokens' \subseteq tokens
                         /\ cachetokens' \subseteq cachetokens
                         /\ tokens \ tokens' \subseteq RowsOf(u, tokens)
                         /\ cachetokens \ cachetokens' \subseteq RowsOf(u, cachetokens)
       /\ \A c \in Clients :
              (/\ Step(c)
               /\ client'[c].op \in GatedOps
               /\ client'[c].data.api_key.kind = "jwt"
               /\ client'[c].alone)
                  => /\ client'[c].pc \in {"now", "cached", "done"}
                     /\ Answered(c) => client'[c].resp.status = 401
                     /\ UNCHANGED <<appointments, tokens, cachetokens>>
       /\ \A u \in SessionUsers :
              (~\E c \in Clients :
                   /\ Answered(c)
                   /\ client'[c].op \in {"login", "refresh"}
                   /\ client'[c].resp.status = 201)
                  => /\ RowsOf(u, tokens') \subseteq RowsOf(u, tokens)
                     /\ RowsOf(u, cachetokens') \subseteq RowsOf(u, cachetokens)]_vars

\* user 1 was logged out with 200; the same access token, still unexpired,
\* arrived when user 1 had no CacheToken row and was answered 401; the
\* session of user 3 is still stored
C26_Witness ==
    /\ client[1].op = "logout"
    /\ client[1].resp.status = 200
    /\ client[1].data.api_key = SessionAccess(1, IssuedAt(1))
    /\ client[2].op = "retrieve"
    /\ client[2].data.api_key = SessionAccess(1, IssuedAt(1))
    /\ client[2].alone
    /\ clock = ClockValues[1]
    /\ client[2].resp = Response(401, {MsgTokenInvalid})
    /\ RowsOf(1, tokens) = {} /\ RowsOf(1, cachetokens) = {}
    /\ RowsOf(3, tokens) # {} /\ RowsOf(3, cachetokens) # {}

\* a login with the password of a registered, active account
GoodLogin(data) ==
    /\ {"email", "password"} \subseteq DOMAIN data
    /\ \E u \in users : u.email = data["email"] /\ u.password = data["password"] /\ u.is_active

\* a refresh with a refresh token that is stored and has not expired
GoodRefresh(token) ==
    /\ token.kind = "jwt"
    /\ ~ExpiredSignature(clock, token.exp)
    /\ \E t \in tokens : t.refresh_token = token

\* C27: a user has at most one Token row and at most one CacheToken row, and
\* after a login or a token refresh of a user the access token authenticate
\* accepts for that user is the newly issued one, no longer the older one
C27_NewestTokenOnly ==
    /\ [](\A u \in SessionUsers :
              /\ Cardinality(RowsOf(u, tokens)) <= 1
              /\ Cardinality(RowsOf(u, cachetokens)) <= 1)
    /\ [][\A c \in Clients :
              /\ (Answered(c) /\ client'[c].op = "login" /\ GoodLogin(client'[c].data))
                     => LET u == client'[c].data["email"]
                        IN  /\ get_token(u, cachetokens') # NoToken
                            /\ get_token(u, cachetokens') # get_token(u, cachetokens)
              /\ (Answered(c) /\ client'[c].op = "refresh"
                      /\ GoodRefresh(client'[c].data.refresh_token))
                     => LET u == client'[c].data.refresh_token.user
                        IN  /\ get_token(u, cachetokens') # NoToken
                            /\ get_token(u, cachetokens') # get_token(u, cachetokens)]_vars

\* C28: a login with the password of a registered, active account is
\* answered 201; a token refresh with a stored, unexpired refresh token is
\* answered 201, and the refresh token stored afterwards is a new one, not
\* the one that was presented
C28_RefreshChain ==
    [][\A c \in Clients :
           /\ (Answered(c) /\ client'[c].op = "login" /\ GoodLogin(client'[c].data))
                  => client'[c].resp.status = 201
           /\ (Answered(c) /\ client'[c].op = "refresh"
                   /\ GoodRefresh(client'[c].data.refresh_token))
                  => /\ client'[c].resp.status = 201
                     /\ \A t \in RowsOf(client'[c].data.refresh_token.user, tokens') :
                            t.refresh_token # client'[c].data.refresh_token]_vars

---------------------------------------------------------------------------
(* Properties of accounts *)

\* C29: the user of every DoctorProfile has user_type DOCTOR
C29_ProfileUserIsDoctor ==
    \A p \in doctorprofiles :
        \E u \in users : u.pk = p.user /\ u.user_type = "DOCTOR"

====
